---- MODULE Spec2Model ----
(***************************************************************************)
(* A model of packages/models/src/generated.ts: the schema.org object      *)
(* model (Thing and its subtypes) with its constructors, equals, hash,     *)
(* toJson/fromJson and toRdf/fromRdf.                                       *)
(*                                                                         *)
(* Values.  Strings are TLA+ strings.  A purify Maybe is Nothing or        *)
(* Just(v).  An rdfjs term is a record of termType, value, language and    *)
(* datatype.  A JavaScript Date is a day and a time of day, or the invalid *)
(* Date; a JavaScript number is a finite integer or NaN.  An object of a   *)
(* class is the record of its fields after construction.                   *)
(***************************************************************************)
EXTENDS Integers, Sequences, FiniteSets, TLC

VARIABLES obj, other, hasher, graph, input, result

vars == <<obj, other, hasher, graph, input, result>>

(* ---------------------------------------------------------------------- *)
(* Bounds of the model                                                     *)
(* ---------------------------------------------------------------------- *)

\* The longest array a constructor is given.
MaxLen == 2

\* The most optional constructor parameters supplied at once.
MaxFields == 2

\* The most calls of one method the model makes on an object.
MaxCalls == 3

(* ---------------------------------------------------------------------- *)
(* Library values: purify Maybe, rdfjs terms, Date, number                 *)
(* ---------------------------------------------------------------------- *)

Nothing == [just |-> FALSE]

Just(v) == [just |-> TRUE, value |-> v]

XsdString == "http://www.w3.org/2001/XMLSchema#string"

XsdDate == "http://www.w3.org/2001/XMLSchema#date"

XsdInteger == "http://www.w3.org/2001/XMLSchema#integer"

XsdDouble == "http://www.w3.org/2001/XMLSchema#double"

XsdBoolean == "http://www.w3.org/2001/XMLSchema#boolean"

XsdDateTime == "http://www.w3.org/2001/XMLSchema#dateTime"

RdfLangString == "http://www.w3.org/1999/02/22-rdf-syntax-ns#langString"

RdfType == "http://www.w3.org/1999/02/22-rdf-syntax-ns#type"

\* dataFactory.namedNode(value)
NamedNode(s) ==
  [termType |-> "NamedNode", value |-> s, language |-> "", datatype |-> ""]

\* dataFactory.blankNode(value)
BlankNode(s) ==
  [termType |-> "BlankNode", value |-> s, language |-> "", datatype |-> ""]

\* A literal term with its language tag and datatype IRI.
Literal(v, lang, dt) ==
  [termType |-> "Literal", value |-> v, language |-> lang, datatype |-> dt]

\* dataFactory.literal(value): a plain xsd:string literal.
PlainLiteral(v) == Literal(v, "", XsdString)

\* dataFactory.literal(value, language): a language-tagged string.
LangLiteral(v, lang) == Literal(v, lang, RdfLangString)

\* Term.equals of two rdfjs terms: same termType and value, and for
\* literals the same language and datatype.
TermEquals(l, r) ==
  /\ l.termType = r.termType
  /\ l.value = r.value
  /\ (l.termType = "Literal" => l.language = r.language /\ l.datatype = r.datatype)

\* A Date: a calendar day and the time within it, or the invalid Date.
ValidDate(d, t) == [valid |-> TRUE, day |-> d, time |-> t]

InvalidDate == [valid |-> FALSE, day |-> 0, time |-> 0]

\* The calendar days of the model and their YYYY-MM-DD form.
DayStrings == <<"2020-01-01", "2020-01-02">>

\* The times of day of the model and their form after the "T"; the first is
\* midnight UTC.
TimeStrings == <<"00:00:00.000Z", "13:45:00.000Z">>

Days == DOMAIN DayStrings

Times == DOMAIN TimeStrings

Midnight == CHOOSE t \in Times : TimeStrings[t] = "00:00:00.000Z"

\* Date.prototype.toISOString of a valid Date.
ToISOString(d) == DayStrings[d.day] \o "T" \o TimeStrings[d.time]

\* s.replace(/T.*$/, ""): the part of an ISO string before its "T".
StripTime(s) ==
  IF \E d \in Days, t \in Times : s = DayStrings[d] \o "T" \o TimeStrings[t]
  THEN CHOOSE p \in {DayStrings[d] : d \in Days} :
         \E t \in Times : s = p \o "T" \o TimeStrings[t]
  ELSE s

\* new Date(s): midnight UTC of the day for a YYYY-MM-DD string, the instant
\* for a full ISO string, the invalid Date for any other string.
NewDate(s) ==
  IF \E d \in Days : DayStrings[d] = s
  THEN ValidDate(CHOOSE d \in Days : DayStrings[d] = s, Midnight)
  ELSE IF \E d \in Days, t \in Times : s = DayStrings[d] \o "T" \o TimeStrings[t]
  THEN CHOOSE v \in {ValidDate(d, t) : d \in Days, t \in Times} :
         s = DayStrings[v.day] \o "T" \o TimeStrings[v.time]
  ELSE InvalidDate

\* Date.prototype.getTime() === getTime(): NaN is unequal to itself.
SameTime(l, r) == l.valid /\ r.valid /\ l.day = r.day /\ l.time = r.time

\* A number: finite, or NaN.
Num(n) == [nan |-> FALSE, n |-> n]

NaN == [nan |-> TRUE, n |-> 0]

\* left === right on numbers.
NumStrictEquals(l, r) == ~l.nan /\ ~r.nan /\ l.n = r.n

\* Number.prototype.toString
NumToString(v) == IF v.nan THEN "NaN" ELSE ToString(v.n)

(* ---------------------------------------------------------------------- *)
(* Constructor parameters                                                  *)
(* ---------------------------------------------------------------------- *)

\* An omitted parameter (typeof === "undefined").
Undefined == [shape |-> "undefined"]

\* A purify Maybe given as the parameter.
PMaybe(m) == [shape |-> "maybe", maybe |-> m]

\* A string given as the parameter.
PString(s) == [shape |-> "string", str |-> s]

\* An rdfjs term given as the parameter (typeof === "object").
PTerm(t) == [shape |-> "object", term |-> t]

\* An array given as the parameter.
PArray(a) == [shape |-> "array", arr |-> a]

\* A Date given as the parameter.
PDate(d) == [shape |-> "date", date |-> d]

\* A number given as the parameter.
PNumber(n) == [shape |-> "number", num |-> n]

\* A boolean given as the parameter.
PBoolean(b) == [shape |-> "boolean", bool |-> b]

\* An object of a model class given as the parameter.
PObject(o) == [shape |-> "instance", inst |-> o]

\* Maybe<string> field: description, name, familyName, givenName,
\* encodingFormat.
StringField(p) ==
  CASE p.shape = "maybe" -> p.maybe
    [] p.shape = "string" -> Just(p.str)
    [] p.shape = "undefined" -> Nothing

\* Array field: identifiers, sameAs, hasOccupation, images, memberOf, ...
ArrayField(p) ==
  CASE p.shape = "undefined" -> <<>>
    [] p.shape = "array" -> p.arr

\* Maybe<NamedNode> field: url, roleName, contentUrl.
IriField(p) ==
  CASE p.shape = "maybe" -> p.maybe
    [] p.shape = "object" -> Just(p.term)
    [] p.shape = "string" -> Just(NamedNode(p.str))
    [] p.shape = "undefined" -> Nothing

\* Maybe<Date> field: endDate, startDate, birthDate.
DateField(p) ==
  CASE p.shape = "maybe" -> p.maybe
    [] p.shape = "date" -> Just(p.date)
    [] p.shape = "undefined" -> Nothing

\* Required identifier: a NamedNode or a string.
IdentifierField(p) ==
  CASE p.shape = "object" -> p.term
    [] p.shape = "string" -> NamedNode(p.str)

\* Role's optional identifier: _identifier stays undefined (Nothing here)
\* when the parameter is omitted.
OptionalIdentifierField(p) ==
  CASE p.shape = "object" -> Just(p.term)
    [] p.shape = "string" -> Just(NamedNode(p.str))
    [] p.shape = "undefined" -> Nothing

\* Maybe<number> field: QuantitiveValue.value.
NumberField(p) ==
  CASE p.shape = "maybe" -> p.maybe
    [] p.shape = "number" -> Just(p.num)
    [] p.shape = "undefined" -> Nothing

\* Maybe<QuantitiveValue> field: height, width.
ObjectField(p) ==
  CASE p.shape = "maybe" -> p.maybe
    [] p.shape = "instance" -> Just(p.inst)
    [] p.shape = "undefined" -> Nothing

\* rdfLiteral.toRdf(value, { dataFactory }) of a boolean, Date or number.
PrimitiveToLiteral(p) ==
  CASE p.shape = "boolean" ->
         Literal(IF p.bool THEN "true" ELSE "false", "", XsdBoolean)
    [] p.shape = "date" -> Literal(ToISOString(p.date), "", XsdDateTime)
    [] p.shape = "number" ->
         Literal(NumToString(p.num), "", IF p.num.nan THEN XsdDouble ELSE XsdInteger)

\* Person.gender: Maybe<BlankNode | NamedNode | Literal>.
GenderField(p) ==
  CASE p.shape = "maybe" -> p.maybe
    [] p.shape = "boolean" -> Just(PrimitiveToLiteral(p))
    [] p.shape = "date" -> Just(PrimitiveToLiteral(p))
    [] p.shape = "number" -> Just(PrimitiveToLiteral(p))
    [] p.shape = "string" -> Just(PlainLiteral(p.str))
    [] p.shape = "object" -> Just(p.term)
    [] p.shape = "undefined" -> Nothing

(* ---------------------------------------------------------------------- *)
(* Constructors: the fields of an object after construction                *)
(* ---------------------------------------------------------------------- *)

ThingCtor(p) ==
  [description |-> StringField(p.description),
   identifiers |-> ArrayField(p.identifiers),
   name |-> StringField(p.name),
   sameAs |-> ArrayField(p.sameAs),
   url |-> IriField(p.url)]

RoleCtor(p) ==
  ThingCtor(p) @@
  [type |-> "Role",
   endDate |-> DateField(p.endDate),
   _identifier |-> OptionalIdentifierField(p.identifier),
   roleName |-> IriField(p.roleName),
   startDate |-> DateField(p.startDate)]

PersonCtor(p) ==
  ThingCtor(p) @@
  [type |-> "Person",
   birthDate |-> DateField(p.birthDate),
   familyName |-> StringField(p.familyName),
   gender |-> GenderField(p.gender),
   givenName |-> StringField(p.givenName),
   hasOccupation |-> ArrayField(p.hasOccupation),
   identifier |-> IdentifierField(p.identifier),
   images |-> ArrayField(p.images),
   memberOf |-> ArrayField(p.memberOf)]

OrganizationCtor(p) ==
  ThingCtor(p) @@
  [type |-> "Organization",
   identifier |-> IdentifierField(p.identifier),
   members |-> ArrayField(p.members),
   parentOrganizations |-> ArrayField(p.parentOrganizations),
   subOrganizations |-> ArrayField(p.subOrganizations)]

OccupationCtor(p) ==
  ThingCtor(p) @@
  [type |-> "Occupation", identifier |-> IdentifierField(p.identifier)]

QuantitiveValueCtor(p) ==
  ThingCtor(p) @@
  [type |-> "QuantitiveValue",
   identifier |-> IdentifierField(p.identifier),
   value |-> NumberField(p.value)]

CreativeWorkCtor(p) ==
  ThingCtor(p) @@ [isBasedOn |-> ArrayField(p.isBasedOn)]

MediaObjectCtor(p) ==
  CreativeWorkCtor(p) @@
  [contentUrl |-> IriField(p.contentUrl),
   encodingFormat |-> StringField(p.encodingFormat),
   height |-> ObjectField(p.height),
   width |-> ObjectField(p.width)]

ImageObjectCtor(p) ==
  MediaObjectCtor(p) @@
  [type |-> "ImageObject", identifier |-> IdentifierField(p.identifier)]

GenderTypeCtor(p) ==
  ThingCtor(p) @@
  [type |-> "GenderType", identifier |-> IdentifierField(p.identifier)]

\* new C(parameters) for the concrete class named c.
New(c, p) ==
  CASE c = "Role" -> RoleCtor(p)
    [] c = "Person" -> PersonCtor(p)
    [] c = "Organization" -> OrganizationCtor(p)
    [] c = "Occupation" -> OccupationCtor(p)
    [] c = "QuantitiveValue" -> QuantitiveValueCtor(p)
    [] c = "ImageObject" -> ImageObjectCtor(p)
    [] c = "GenderType" -> GenderTypeCtor(p)

Classes ==
  {"Role", "Person", "Organization", "Occupation", "QuantitiveValue",
   "ImageObject", "GenderType"}

(* ---------------------------------------------------------------------- *)
(* hash: the update() calls an object issues to a hasher                   *)
(* ---------------------------------------------------------------------- *)

\* A hasher: the update() arguments it has received, and whether the call
\* feeding it was cut short by an exception.
NewHasher == [updates |-> <<>>, thrown |-> FALSE]

\* A hasher whose update() drops a message it has already taken; HashStable
\* does not hold of it.
UpdateUnlessSeen(h, message) ==
  IF h.thrown \/ (\E i \in DOMAIN h.updates : h.updates[i] = message) THEN h
  ELSE [h EXCEPT !.updates = Append(@, message)]

\* _hasher.update(message)
Update(h, message) ==
  IF h.thrown THEN h ELSE [h EXCEPT !.updates = Append(@, message)]

\* An exception leaves the hasher as it is and ends the call.
Throw(h) == [h EXCEPT !.thrown = TRUE]

\* _hasher.update(_value0) under maybe.ifJust
UpdateMaybeString(h, m) == IF m.just THEN Update(h, m.value) ELSE h

\* A term hashed value first; HashOrder does not hold of it.
UpdateTermValueFirst(h, t) == Update(Update(h, t.value), t.termType)

\* _hasher.update(term.termType); _hasher.update(term.value)
UpdateTerm(h, t) == Update(Update(h, t.termType), t.value)

UpdateMaybeTerm(h, m) == IF m.just THEN UpdateTerm(h, m.value) ELSE h

\* _hasher.update(date.toISOString()): toISOString throws a RangeError on
\* the invalid Date.
UpdateMaybeDate(h, m) ==
  IF ~m.just THEN h
  ELSE IF m.value.valid THEN Update(h, ToISOString(m.value)) ELSE Throw(h)

\* for (const _item0 of strings) _hasher.update(_item0)
RECURSIVE UpdateStrings(_, _)
UpdateStrings(h, strings) ==
  IF strings = <<>> THEN h
  ELSE UpdateStrings(Update(h, Head(strings)), Tail(strings))

\* for (const _item0 of terms) { update(termType); update(value) }
RECURSIVE UpdateTerms(_, _)
UpdateTerms(h, terms) ==
  IF terms = <<>> THEN h
  ELSE UpdateTerms(UpdateTerm(h, Head(terms)), Tail(terms))

ThingHash(o, h) ==
  LET h1 == UpdateMaybeString(h, o.description)
      h2 == UpdateStrings(h1, o.identifiers)
      h3 == UpdateMaybeString(h2, o.name)
      h4 == UpdateTerms(h3, o.sameAs)
  IN  UpdateMaybeTerm(h4, o.url)

\* A hash that also feeds the hasher the identifier a Role was given;
\* RoleIdentifierGiven does not hold of it.
RoleHashWithIdentifier(o, h) ==
  LET h0 == ThingHash(o, h)
      h1 == IF o._identifier.just THEN Update(h0, o._identifier.value.value)
            ELSE h0
      h2 == UpdateMaybeDate(h1, o.endDate)
      h3 == UpdateMaybeTerm(h2, o.roleName)
  IN  UpdateMaybeDate(h3, o.startDate)

RoleHash(o, h) ==
  LET h0 == ThingHash(o, h)
      h1 == UpdateMaybeDate(h0, o.endDate)
      h2 == UpdateMaybeTerm(h1, o.roleName)
  IN  UpdateMaybeDate(h2, o.startDate)

OccupationHash(o, h) == Update(ThingHash(o, h), o.identifier.value)

QuantitiveValueHash(o, h) ==
  LET h0 == Update(ThingHash(o, h), o.identifier.value)
  IN  IF o.value.just THEN Update(h0, NumToString(o.value.value)) ELSE h0

CreativeWorkHash(o, h) == UpdateTerms(ThingHash(o, h), o.isBasedOn)

MediaObjectHash(o, h) ==
  LET h0 == CreativeWorkHash(o, h)
      h1 == UpdateMaybeTerm(h0, o.contentUrl)
      h2 == UpdateMaybeString(h1, o.encodingFormat)
      h3 == IF o.height.just THEN QuantitiveValueHash(o.height.value, h2) ELSE h2
  IN  IF o.width.just THEN QuantitiveValueHash(o.width.value, h3) ELSE h3

ImageObjectHash(o, h) == Update(MediaObjectHash(o, h), o.identifier.value)

GenderTypeHash(o, h) == Update(ThingHash(o, h), o.identifier.value)

OrganizationHash(o, h) ==
  LET h0 == Update(ThingHash(o, h), o.identifier.value)
      h1 == UpdateTerms(h0, o.members)
      h2 == UpdateTerms(h1, o.parentOrganizations)
  IN  UpdateTerms(h2, o.subOrganizations)

\* for (const _item0 of this.hasOccupation) switch (_item0.type) ...
RECURSIVE HashOccupations(_, _)
HashOccupations(h, items) ==
  IF items = <<>> THEN h
  ELSE HashOccupations(
         IF Head(items).type = "Occupation" THEN OccupationHash(Head(items), h)
         ELSE IF Head(items).type = "Role" THEN RoleHash(Head(items), h)
         ELSE h,
         Tail(items))

\* for (const _item0 of this.images) _item0.hash(_hasher)
RECURSIVE HashImages(_, _)
HashImages(h, items) ==
  IF items = <<>> THEN h
  ELSE HashImages(ImageObjectHash(Head(items), h), Tail(items))

PersonHash(o, h) ==
  LET h0 == ThingHash(o, h)
      h1 == UpdateMaybeDate(h0, o.birthDate)
      h2 == UpdateMaybeString(h1, o.familyName)
      h3 == UpdateMaybeTerm(h2, o.gender)
      h4 == UpdateMaybeString(h3, o.givenName)
      h5 == HashOccupations(h4, o.hasOccupation)
      h6 == Update(h5, o.identifier.value)
      h7 == HashImages(h6, o.images)
  IN  UpdateTerms(h7, o.memberOf)

\* o.hash(_hasher), dispatched on the object's class.
Hash(o, h) ==
  CASE o.type = "Role" -> RoleHash(o, h)
    [] o.type = "Person" -> PersonHash(o, h)
    [] o.type = "Organization" -> OrganizationHash(o, h)
    [] o.type = "Occupation" -> OccupationHash(o, h)
    [] o.type = "QuantitiveValue" -> QuantitiveValueHash(o, h)
    [] o.type = "ImageObject" -> ImageObjectHash(o, h)
    [] o.type = "GenderType" -> GenderTypeHash(o, h)

\* The value hash returns: the hasher it was given.
HashReturn(given) == given

(* ---------------------------------------------------------------------- *)
(* Role.identifier: given, or synthesized from the hash                    *)
(* ---------------------------------------------------------------------- *)

\* The message a hasher has been fed: its updates, concatenated.
RECURSIVE Concat(_)
Concat(updates) ==
  IF updates = <<>> THEN "" ELSE Head(updates) \o Concat(Tail(updates))

\* sha256.create() fed the updates, read as a string: the hex digest of the
\* concatenated message (SHA-256 taken as collision-free).
Sha256Hex(updates) == "sha256(" \o Concat(updates) \o ")"

\* Whether reading o.identifier throws: only a Role without _identifier
\* hashes itself, and hash throws on an invalid Date.
IdentifierThrows(o) ==
  /\ o.type = "Role"
  /\ ~o._identifier.just
  /\ RoleHash(o, NewHasher).thrown

\* A getter that hashes into the hasher it shares with its callers instead
\* of a fresh one; IdentifierDeterministic does not hold of it.
RoleIdentifierShared(o) ==
  IF o._identifier.just THEN o._identifier.value
  ELSE NamedNode("urn:shaclmate:object:" \o o.type \o ":" \o
                 Sha256Hex(RoleHash(o, hasher).updates))

RoleIdentifier(o) ==
  IF o._identifier.just THEN o._identifier.value
  ELSE NamedNode("urn:shaclmate:object:" \o o.type \o ":" \o
                 Sha256Hex(RoleHash(o, NewHasher).updates))

\* this.identifier
Identifier(o) == IF o.type = "Role" THEN RoleIdentifier(o) ELSE o.identifier

\* A getter that keeps the identifier it synthesized in _identifier; Pure
\* does not hold of it.
AfterIdentifierCached(o) ==
  IF o.type = "Role" /\ ~o._identifier.just /\ ~IdentifierThrows(o)
  THEN [o EXCEPT !._identifier = Just(RoleIdentifier(o))]
  ELSE o

\* The object after a read of this.identifier: the getter returns the
\* named node it builds and assigns nothing.
AfterIdentifier(o) == o

(* ---------------------------------------------------------------------- *)
(* equals                                                                  *)
(* ---------------------------------------------------------------------- *)

\* An EqualsResult: Right(true), Left(unequal), or the exception that left
\* the call. trace lists the properties the call compared, in order.
Equal == [tag |-> "Right", trace |-> <<>>]

Left(unequal) == [tag |-> "Left", unequal |-> unequal, trace |-> <<>>]

Thrown == [tag |-> "Throw", trace |-> <<>>]

\* A JavaScript boolean where a boolean or an EqualsResult may stand.
Boolean(b) == [tag |-> "boolean", value |-> b]

fromBooleanEqualsResult(left, right, equalsResult) ==
  IF equalsResult.tag # "boolean" THEN equalsResult
  ELSE IF equalsResult.value THEN Equal
  ELSE Left([left |-> left, right |-> right, type |-> "BooleanEquals"])

\* strictEquals on strings: left === right.
strictEquals(left, right) ==
  fromBooleanEqualsResult(left, right, Boolean(left = right))

\* strictEquals on numbers: NaN === NaN is false.
strictEqualsNumber(left, right) ==
  fromBooleanEqualsResult(left, right, Boolean(NumStrictEquals(left, right)))

booleanEquals(left, right) ==
  fromBooleanEqualsResult(left, right, Boolean(TermEquals(left, right)))

dateEquals(left, right) ==
  fromBooleanEqualsResult(left, right, Boolean(SameTime(left, right)))

RECURSIVE ObjectEquals(_, _)

\* Person.equals' comparison of two hasOccupation elements.
OccupationOrRoleEquals(left, right) ==
  IF left.type = right.type THEN ObjectEquals(left, right)
  ELSE Left([left |-> left, right |-> right, propertyName |-> "type",
             propertyValuesUnequal |->
               [left |-> "object", right |-> "object", type |-> "BooleanEquals"],
             type |-> "Property"])

\* The comparison function passed to maybeEquals and arrayEquals.
ValueEquals(valueEquals, left, right) ==
  CASE valueEquals = "strictEquals" -> strictEquals(left, right)
    [] valueEquals = "strictEqualsNumber" -> strictEqualsNumber(left, right)
    [] valueEquals = "booleanEquals" -> booleanEquals(left, right)
    [] valueEquals = "dateEquals" -> dateEquals(left, right)
    [] valueEquals = "equals" -> [ObjectEquals(left, right) EXCEPT !.trace = <<>>]
    [] valueEquals = "occupationOrRoleEquals" ->
         [OccupationOrRoleEquals(left, right) EXCEPT !.trace = <<>>]
    [] valueEquals = "(left, right) => left === right" -> Boolean(left = right)

\* A maybeEquals that names the absent side by the wrong type;
\* MaybeEqualsCases does not hold of it.
maybeEqualsSwapped(leftMaybe, rightMaybe, valueEquals) ==
  IF leftMaybe.just
  THEN IF rightMaybe.just
       THEN fromBooleanEqualsResult(leftMaybe, rightMaybe,
              ValueEquals(valueEquals, leftMaybe.value, rightMaybe.value))
       ELSE Left([left |-> leftMaybe.value, type |-> "LeftNull"])
  ELSE IF rightMaybe.just
       THEN Left([right |-> rightMaybe.value, type |-> "RightNull"])
       ELSE Equal

\* A maybeEquals that takes an absent value for equal to any value;
\* EqualsTransitive does not hold of it.
maybeEqualsAbsentAny(leftMaybe, rightMaybe, valueEquals) ==
  IF leftMaybe.just /\ rightMaybe.just
  THEN fromBooleanEqualsResult(leftMaybe, rightMaybe,
         ValueEquals(valueEquals, leftMaybe.value, rightMaybe.value))
  ELSE Equal

maybeEquals(leftMaybe, rightMaybe, valueEquals) ==
  IF leftMaybe.just
  THEN IF rightMaybe.just
       THEN fromBooleanEqualsResult(leftMaybe, rightMaybe,
              ValueEquals(valueEquals, leftMaybe.value, rightMaybe.value))
       ELSE Left([left |-> leftMaybe.value, type |-> "RightNull"])
  ELSE IF rightMaybe.just
       THEN Left([right |-> rightMaybe.value, type |-> "LeftNull"])
       ELSE Equal

\* An inner loop that puts each mismatch before those collected;
\* ArrayElementUnequal does not hold of it.
RECURSIVE RightUnequalsReversed(_, _, _, _, _)
RightUnequalsReversed(leftElement, rightArray, j, elementEquals, rightUnequals) ==
  IF j > Len(rightArray) THEN [tag |-> "Left", unequals |-> rightUnequals]
  ELSE LET e == fromBooleanEqualsResult(leftElement, rightArray[j],
                  ValueEquals(elementEquals, leftElement, rightArray[j]))
       IN  IF e.tag = "Right" THEN [tag |-> "Right", unequals |-> rightUnequals]
           ELSE IF e.tag = "Throw" THEN [tag |-> "Throw", unequals |-> rightUnequals]
           ELSE RightUnequalsReversed(leftElement, rightArray, j + 1, elementEquals,
                                      <<e.unequal>> \o rightUnequals)

\* The inner loop of arrayEquals for one left element, from right index j:
\* the mismatches collected until a right element is equal.
RECURSIVE RightUnequals(_, _, _, _, _)
RightUnequals(leftElement, rightArray, j, elementEquals, rightUnequals) ==
  IF j > Len(rightArray) THEN [tag |-> "Left", unequals |-> rightUnequals]
  ELSE LET Compared(e) ==
             IF e.tag = "Right" THEN [tag |-> "Right", unequals |-> rightUnequals]
             ELSE IF e.tag = "Throw" THEN [tag |-> "Throw", unequals |-> rightUnequals]
             ELSE RightUnequals(leftElement, rightArray, j + 1, elementEquals,
                                Append(rightUnequals, e.unequal))
       IN  Compared(fromBooleanEqualsResult(leftElement, rightArray[j],
                      ValueEquals(elementEquals, leftElement, rightArray[j])))

\* The outer loop of arrayEquals from left index i.
RECURSIVE LeftElements(_, _, _, _)
LeftElements(leftArray, rightArray, i, elementEquals) ==
  IF i > Len(leftArray) THEN Equal
  ELSE LET Compared(row) ==
             IF row.tag = "Throw" THEN Thrown
             ELSE IF Len(row.unequals) = Len(rightArray)
             THEN Left([left |-> [array |-> leftArray, element |-> leftArray[i],
                                  elementIndex |-> i - 1],
                        right |-> [array |-> rightArray, unequals |-> row.unequals],
                        type |-> "ArrayElement"])
             ELSE LeftElements(leftArray, rightArray, i + 1, elementEquals)
       IN  Compared(RightUnequals(leftArray[i], rightArray, 1, elementEquals, <<>>))

\* An arrayEquals that goes into the loops whatever the lengths;
\* ArrayLengthUnequal does not hold of it.
arrayEqualsAnyLength(leftArray, rightArray, elementEquals) ==
  LeftElements(leftArray, rightArray, 1, elementEquals)

arrayEquals(leftArray, rightArray, elementEquals) ==
  IF Len(leftArray) # Len(rightArray)
  THEN Left([left |-> leftArray, right |-> rightArray, type |-> "ArrayLength"])
  ELSE LeftElements(leftArray, rightArray, 1, elementEquals)

\* The pairs of indices on which the loops of arrayEquals call
\* elementEquals, from position (i, j): a Right breaks out to the next left
\* element, and a left element unequal to every right element ends the
\* call.
RECURSIVE ElementEqualsCalls(_, _, _, _, _)
ElementEqualsCalls(leftArray, rightArray, i, j, elementEquals) ==
  IF i > Len(leftArray) \/ j > Len(rightArray) THEN <<>>
  ELSE LET Compared(e) ==
             <<<<i - 1, j - 1>>>> \o
             (IF e.tag = "Right"
              THEN ElementEqualsCalls(leftArray, rightArray, i + 1, 1, elementEquals)
              ELSE IF e.tag = "Throw" THEN <<>>
              ELSE ElementEqualsCalls(leftArray, rightArray, i, j + 1, elementEquals))
       IN  Compared(fromBooleanEqualsResult(leftArray[i], rightArray[j],
                      ValueEquals(elementEquals, leftArray[i], rightArray[j])))

\* The calls of elementEquals one call of arrayEquals makes: none when the
\* lengths differ.
arrayEqualsCalls(leftArray, rightArray, elementEquals) ==
  IF Len(leftArray) # Len(rightArray) THEN <<>>
  ELSE ElementEqualsCalls(leftArray, rightArray, 1, 1, elementEquals)

\* .chain(() => compared.mapLeft(... propertyName ...)): the comparison runs
\* only after a Right, and a Left is wrapped in a Property descriptor.
Property(prior, this, that, propertyName, compared) ==
  IF prior.tag # "Right" THEN prior
  ELSE IF compared.tag = "Left"
  THEN [tag |-> "Left",
        unequal |-> [left |-> this, right |-> that,
                     propertyName |-> propertyName,
                     propertyValuesUnequal |-> compared.unequal,
                     type |-> "Property"],
        trace |-> Append(prior.trace, propertyName)]
  ELSE [compared EXCEPT !.trace = Append(prior.trace, propertyName)]

\* booleanEquals(this.identifier, other.identifier); reading the identifier
\* of a Role may throw.
IdentifierEquals(this, that) ==
  IF IdentifierThrows(this) \/ IdentifierThrows(that) THEN Thrown
  ELSE booleanEquals(Identifier(this), Identifier(that))

ThingEquals(this, that) ==
  LET e1 == Property(Equal, this, that, "description",
              maybeEquals(this.description, that.description, "strictEquals"))
      e2 == Property(e1, this, that, "identifier", IdentifierEquals(this, that))
      e3 == Property(e2, this, that, "identifiers",
              arrayEquals(this.identifiers, that.identifiers, "strictEquals"))
      e4 == Property(e3, this, that, "name",
              maybeEquals(this.name, that.name, "strictEquals"))
      e5 == Property(e4, this, that, "sameAs",
              arrayEquals(this.sameAs, that.sameAs, "booleanEquals"))
      e6 == Property(e5, this, that, "type", strictEquals(this.type, that.type))
  IN  Property(e6, this, that, "url",
        maybeEquals(this.url, that.url, "booleanEquals"))

RoleEquals(this, that) ==
  LET e1 == Property(ThingEquals(this, that), this, that, "endDate",
              maybeEquals(this.endDate, that.endDate, "dateEquals"))
      e2 == Property(e1, this, that, "roleName",
              maybeEquals(this.roleName, that.roleName, "booleanEquals"))
  IN  Property(e2, this, that, "startDate",
        maybeEquals(this.startDate, that.startDate, "dateEquals"))

PersonEquals(this, that) ==
  LET e1 == Property(ThingEquals(this, that), this, that, "birthDate",
              maybeEquals(this.birthDate, that.birthDate, "dateEquals"))
      e2 == Property(e1, this, that, "familyName",
              maybeEquals(this.familyName, that.familyName, "strictEquals"))
      e3 == Property(e2, this, that, "gender",
              maybeEquals(this.gender, that.gender, "booleanEquals"))
      e4 == Property(e3, this, that, "givenName",
              maybeEquals(this.givenName, that.givenName, "strictEquals"))
      e5 == Property(e4, this, that, "hasOccupation",
              arrayEquals(this.hasOccupation, that.hasOccupation,
                          "occupationOrRoleEquals"))
      e6 == Property(e5, this, that, "images",
              arrayEquals(this.images, that.images, "equals"))
  IN  Property(e6, this, that, "memberOf",
        arrayEquals(this.memberOf, that.memberOf, "booleanEquals"))

OrganizationEquals(this, that) ==
  LET e1 == Property(ThingEquals(this, that), this, that, "members",
              arrayEquals(this.members, that.members, "booleanEquals"))
      e2 == Property(e1, this, that, "parentOrganizations",
              arrayEquals(this.parentOrganizations, that.parentOrganizations,
                          "booleanEquals"))
  IN  Property(e2, this, that, "subOrganizations",
        arrayEquals(this.subOrganizations, that.subOrganizations,
                    "booleanEquals"))

QuantitiveValueEquals(this, that) ==
  Property(ThingEquals(this, that), this, that, "value",
    maybeEquals(this.value, that.value, "strictEqualsNumber"))

CreativeWorkEquals(this, that) ==
  Property(ThingEquals(this, that), this, that, "isBasedOn",
    arrayEquals(this.isBasedOn, that.isBasedOn, "booleanEquals"))

MediaObjectEquals(this, that) ==
  LET e1 == Property(CreativeWorkEquals(this, that), this, that, "contentUrl",
              maybeEquals(this.contentUrl, that.contentUrl, "booleanEquals"))
      e2 == Property(e1, this, that, "encodingFormat",
              maybeEquals(this.encodingFormat, that.encodingFormat,
                          "strictEquals"))
      e3 == Property(e2, this, that, "height",
              maybeEquals(this.height, that.height, "equals"))
  IN  Property(e3, this, that, "width",
        maybeEquals(this.width, that.width, "equals"))

\* this.equals(that): the method of this's class. Occupation and GenderType
\* inherit Thing.equals, ImageObject inherits MediaObject.equals.
ObjectEquals(this, that) ==
  CASE this.type = "Role" -> RoleEquals(this, that)
    [] this.type = "Person" -> PersonEquals(this, that)
    [] this.type = "Organization" -> OrganizationEquals(this, that)
    [] this.type = "QuantitiveValue" -> QuantitiveValueEquals(this, that)
    [] this.type = "ImageObject" -> MediaObjectEquals(this, that)
    [] this.type \in {"Occupation", "GenderType"} -> ThingEquals(this, that)

(* ---------------------------------------------------------------------- *)
(* toJson                                                                  *)
(* ---------------------------------------------------------------------- *)

\* JSON values; an object is the function from its keys to their values.
JString(s) == [t |-> "string", s |-> s]

JNumber(n) == [t |-> "number", n |-> n]

JNull == [t |-> "null"]

JArray(a) == [t |-> "array", a |-> a]

JObject(o) == [t |-> "object", o |-> o]

\* The exception that left toJson in place of its value.
JThrown == [t |-> "thrown"]

\* Person.toJson's encoding of gender.
GenderToJson(term) ==
  IF term.termType = "Literal"
  THEN JObject((IF Len(term.language) > 0
                THEN "@language" :> JString(term.language) ELSE <<>>) @@
               (IF term.datatype # XsdString
                THEN "@type" :> JString(term.datatype) ELSE <<>>) @@
               ("@value" :> JString(term.value)) @@
               ("termType" :> JString("Literal")))
  ELSE IF term.termType = "NamedNode"
  THEN JObject(("@id" :> JString(term.value)) @@
               ("termType" :> JString("NamedNode")))
  ELSE JObject(("@id" :> JString("_:" \o term.value)) @@
               ("termType" :> JString("BlankNode")))

RECURSIVE ObjectToJson(_)

\* The map function toJson applies to a value of each kind of field;
\* JSON.stringify writes NaN as null.
ToJsonValue(kind, v) ==
  CASE kind = "string" -> JString(v)
    [] kind = "id" -> JObject("@id" :> JString(v.value))
    [] kind = "date" -> JString(StripTime(ToISOString(v)))
    [] kind = "number" -> IF v.nan THEN JNull ELSE JNumber(v.n)
    [] kind = "gender" -> GenderToJson(v)
    [] kind = "object" -> JObject(ObjectToJson(v))

\* key: maybe.map(...).extract(); JSON.stringify leaves out undefined.
OptionalKey(key, kind, maybe) ==
  IF maybe.just THEN key :> ToJsonValue(kind, maybe.value) ELSE <<>>

\* key: array.map(...)
ArrayKey(key, kind, array) ==
  key :> JArray([i \in DOMAIN array |-> ToJsonValue(kind, array[i])])

ThingToJson(o) ==
  OptionalKey("description", "string", o.description) @@
  ("@id" :> JString(Identifier(o).value)) @@
  ArrayKey("identifiers", "string", o.identifiers) @@
  OptionalKey("name", "string", o.name) @@
  ArrayKey("sameAs", "id", o.sameAs) @@
  ("type" :> JString(o.type)) @@
  OptionalKey("url", "id", o.url)

RoleToJson(o) ==
  OptionalKey("endDate", "date", o.endDate) @@
  OptionalKey("roleName", "id", o.roleName) @@
  OptionalKey("startDate", "date", o.startDate) @@
  ThingToJson(o)

PersonToJson(o) ==
  OptionalKey("birthDate", "date", o.birthDate) @@
  OptionalKey("familyName", "string", o.familyName) @@
  OptionalKey("gender", "gender", o.gender) @@
  OptionalKey("givenName", "string", o.givenName) @@
  ArrayKey("hasOccupation", "object", o.hasOccupation) @@
  ArrayKey("images", "object", o.images) @@
  ArrayKey("memberOf", "id", o.memberOf) @@
  ThingToJson(o)

OrganizationToJson(o) ==
  ArrayKey("members", "id", o.members) @@
  ArrayKey("parentOrganizations", "id", o.parentOrganizations) @@
  ArrayKey("subOrganizations", "id", o.subOrganizations) @@
  ThingToJson(o)

QuantitiveValueToJson(o) ==
  OptionalKey("value", "number", o.value) @@ ThingToJson(o)

CreativeWorkToJson(o) ==
  ArrayKey("isBasedOn", "id", o.isBasedOn) @@ ThingToJson(o)

MediaObjectToJson(o) ==
  OptionalKey("contentUrl", "id", o.contentUrl) @@
  OptionalKey("encodingFormat", "string", o.encodingFormat) @@
  OptionalKey("height", "object", o.height) @@
  OptionalKey("width", "object", o.width) @@
  CreativeWorkToJson(o)

\* The keys of o.toJson(), by the method of o's class.
ObjectToJson(o) ==
  CASE o.type = "Role" -> RoleToJson(o)
    [] o.type = "Person" -> PersonToJson(o)
    [] o.type = "Organization" -> OrganizationToJson(o)
    [] o.type = "QuantitiveValue" -> QuantitiveValueToJson(o)
    [] o.type = "ImageObject" -> MediaObjectToJson(o)
    [] o.type \in {"Occupation", "GenderType"} -> ThingToJson(o)

\* toISOString() throws a RangeError on the invalid Date.
ThrowsOnDate(maybe) == maybe.just /\ ~maybe.value.valid

\* o.toJson() throws: a Date field of o, or of an object o holds, is the
\* invalid Date.
RECURSIVE ToJsonThrows(_)
ToJsonThrows(o) ==
  CASE o.type = "Role" -> ThrowsOnDate(o.endDate) \/ ThrowsOnDate(o.startDate)
    [] o.type = "Person" ->
         \/ ThrowsOnDate(o.birthDate)
         \/ \E i \in DOMAIN o.hasOccupation : ToJsonThrows(o.hasOccupation[i])
    [] OTHER -> FALSE

\* o.toJson()
ToJson(o) == IF ToJsonThrows(o) THEN JThrown ELSE JObject(ObjectToJson(o))

(* ---------------------------------------------------------------------- *)
(* fromJson                                                                *)
(* ---------------------------------------------------------------------- *)

\* A purify Either, or the exception that left the call.
LeftError(error) == [tag |-> "Left", error |-> error]

EitherOf(value) == [tag |-> "Right", value |-> value]

Raised == [tag |-> "Throw"]

\* zod.object({ "@id": zod.string().min(1) })
ZodId(j) ==
  /\ j.t = "object"
  /\ "@id" \in DOMAIN j.o
  /\ j.o["@id"].t = "string"
  /\ Len(j.o["@id"].s) >= 1

\* The discriminated union on termType of Person.gender.
ZodGender(j) ==
  /\ j.t = "object"
  /\ "termType" \in DOMAIN j.o
  /\ j.o["termType"].t = "string"
  /\ IF j.o["termType"].s \in {"BlankNode", "NamedNode"} THEN ZodId(j)
     ELSE /\ j.o["termType"].s = "Literal"
          /\ "@language" \in DOMAIN j.o => j.o["@language"].t = "string"
          /\ "@type" \in DOMAIN j.o => j.o["@type"].t = "string"
          /\ "@value" \in DOMAIN j.o
          /\ j.o["@value"].t = "string"

\* The zod schemas of the values that are no model objects; string().date()
\* takes YYYY-MM-DD only.
Zod(kind, j) ==
  CASE kind = "string" -> j.t = "string"
    [] kind = "id" -> ZodId(j)
    [] kind = "date" -> j.t = "string" /\ \E d \in Days : j.s = DayStrings[d]
    [] kind = "number" -> j.t = "number"
    [] kind = "gender" -> ZodGender(j)

\* key: schema.optional()
Optional(o, key, kind) == key \in DOMAIN o => Zod(kind, o[key])

\* key: schema.array()
Array(o, key, kind) ==
  /\ key \in DOMAIN o
  /\ o[key].t = "array"
  /\ \A i \in DOMAIN o[key].a : Zod(kind, o[key].a[i])

IntangibleTypes == {"GenderType", "Occupation", "QuantitiveValue", "Role"}

\* The schema of Thing with the type key as Thing declares it, any of the
\* seven, whatever the subclass schemas merged; JsonShape does not hold of
\* it.
thingJsonZodSchemaAnyType(j, types) ==
  /\ j.t = "object"
  /\ Optional(j.o, "description", "string")
  /\ "@id" \in DOMAIN j.o
  /\ j.o["@id"].t = "string"
  /\ Len(j.o["@id"].s) >= 1
  /\ Array(j.o, "identifiers", "string")
  /\ Optional(j.o, "name", "string")
  /\ Array(j.o, "sameAs", "id")
  /\ "type" \in DOMAIN j.o
  /\ j.o["type"].t = "string"
  /\ j.o["type"].s \in Classes
  /\ Optional(j.o, "url", "id")

\* Thing.thingJsonZodSchema(), its type key as the merges of the subclass
\* schemas leave it: one of types.
thingJsonZodSchema(j, types) ==
  /\ j.t = "object"
  /\ Optional(j.o, "description", "string")
  /\ "@id" \in DOMAIN j.o
  /\ j.o["@id"].t = "string"
  /\ Len(j.o["@id"].s) >= 1
  /\ Array(j.o, "identifiers", "string")
  /\ Optional(j.o, "name", "string")
  /\ Array(j.o, "sameAs", "id")
  /\ "type" \in DOMAIN j.o
  /\ j.o["type"].t = "string"
  /\ j.o["type"].s \in types
  /\ Optional(j.o, "url", "id")

roleJsonZodSchema(j) ==
  /\ thingJsonZodSchema(j, {"Role"})
  /\ Optional(j.o, "endDate", "date")
  /\ Optional(j.o, "roleName", "id")
  /\ Optional(j.o, "startDate", "date")

occupationJsonZodSchema(j) == thingJsonZodSchema(j, {"Occupation"})

organizationJsonZodSchema(j) ==
  /\ thingJsonZodSchema(j, {"Organization"})
  /\ Array(j.o, "members", "id")
  /\ Array(j.o, "parentOrganizations", "id")
  /\ Array(j.o, "subOrganizations", "id")

quantitiveValueJsonZodSchema(j) ==
  /\ thingJsonZodSchema(j, {"QuantitiveValue"})
  /\ Optional(j.o, "value", "number")

creativeWorkJsonZodSchema(j) ==
  /\ thingJsonZodSchema(j, {"ImageObject"})
  /\ Array(j.o, "isBasedOn", "id")

\* mediaObjectJsonZodSchema; imageObjectJsonZodSchema merges the same keys.
mediaObjectJsonZodSchema(j) ==
  /\ creativeWorkJsonZodSchema(j)
  /\ Optional(j.o, "contentUrl", "id")
  /\ Optional(j.o, "encodingFormat", "string")
  /\ "height" \in DOMAIN j.o => quantitiveValueJsonZodSchema(j.o["height"])
  /\ "width" \in DOMAIN j.o => quantitiveValueJsonZodSchema(j.o["width"])

\* The schema of Enumeration with the type of GenderType, which takes any
\* "@id"; GenderTypeIdentifier does not hold of it.
genderTypeJsonZodSchemaAnyId(j) == thingJsonZodSchema(j, {"GenderType"})

genderTypeJsonZodSchema(j) ==
  /\ thingJsonZodSchema(j, {"GenderType"})
  /\ j.o["@id"].s \in {"http://schema.org/Female", "http://schema.org/Male"}

\* A Person schema that takes any array for hasOccupation and images;
\* FromJsonNeverThrows does not hold of it.
personJsonZodSchemaUnchecked(j) ==
  /\ thingJsonZodSchema(j, {"Person"})
  /\ Optional(j.o, "birthDate", "date")
  /\ Optional(j.o, "familyName", "string")
  /\ Optional(j.o, "gender", "gender")
  /\ Optional(j.o, "givenName", "string")
  /\ "hasOccupation" \in DOMAIN j.o
  /\ j.o["hasOccupation"].t = "array"
  /\ "images" \in DOMAIN j.o
  /\ j.o["images"].t = "array"
  /\ Array(j.o, "memberOf", "id")

personJsonZodSchema(j) ==
  /\ thingJsonZodSchema(j, {"Person"})
  /\ Optional(j.o, "birthDate", "date")
  /\ Optional(j.o, "familyName", "string")
  /\ Optional(j.o, "gender", "gender")
  /\ Optional(j.o, "givenName", "string")
  /\ "hasOccupation" \in DOMAIN j.o
  /\ j.o["hasOccupation"].t = "array"
  /\ \A i \in DOMAIN j.o["hasOccupation"].a :
       \/ occupationJsonZodSchema(j.o["hasOccupation"].a[i])
       \/ roleJsonZodSchema(j.o["hasOccupation"].a[i])
  /\ "images" \in DOMAIN j.o
  /\ j.o["images"].t = "array"
  /\ \A i \in DOMAIN j.o["images"].a :
       mediaObjectJsonZodSchema(j.o["images"].a[i])
  /\ Array(j.o, "memberOf", "id")

\* The schema C.propertiesFromJson parses its input with.
JsonZodSchema(c, j) ==
  CASE c = "Role" -> roleJsonZodSchema(j)
    [] c = "Person" -> personJsonZodSchema(j)
    [] c = "Organization" -> organizationJsonZodSchema(j)
    [] c = "Occupation" -> occupationJsonZodSchema(j)
    [] c = "QuantitiveValue" -> quantitiveValueJsonZodSchema(j)
    [] c = "ImageObject" -> mediaObjectJsonZodSchema(j)
    [] c = "GenderType" -> genderTypeJsonZodSchema(j)

\* The schemas the propertiesFromJson of the supertypes of c parse the
\* parsed input with again; each returns Left when its schema rejects.
SuperJsonZodSchemas(c, j) ==
  /\ thingJsonZodSchema(j, Classes)
  /\ c \in IntangibleTypes => thingJsonZodSchema(j, IntangibleTypes)
  /\ c \in {"QuantitiveValue", "GenderType"} => thingJsonZodSchema(j, {c})
  /\ c = "ImageObject" =>
       creativeWorkJsonZodSchema(j) /\ mediaObjectJsonZodSchema(j)

\* Person.propertiesFromJson's decoding of gender.
GenderFromJson(o) ==
  IF o["termType"].s = "Literal"
  THEN IF "@language" \in DOMAIN o
       THEN LangLiteral(o["@value"].s, o["@language"].s)
       ELSE IF "@type" \in DOMAIN o
       THEN Literal(o["@value"].s, "", o["@type"].s)
       ELSE PlainLiteral(o["@value"].s)
  ELSE IF o["termType"].s = "NamedNode" THEN NamedNode(o["@id"].s)
  ELSE BlankNode(SubSeq(o["@id"].s, 3, Len(o["@id"].s)))

\* _item.type of an element of hasOccupation.
ItemType(j) ==
  IF j.t = "object" /\ "type" \in DOMAIN j.o /\ j.o["type"].t = "string"
  THEN j.o["type"].s
  ELSE "undefined"

\* The class whose fromJson decodes a nested value of the kind.
NestedClass(kind, j) ==
  CASE kind = "occupationOrRole" ->
         IF ItemType(j) = "Role" THEN "Role" ELSE "Occupation"
    [] kind = "image" -> "ImageObject"
    [] kind = "quantity" -> "QuantitiveValue"

RECURSIVE FromJson(_, _)

\* The map function propertiesFromJson applies to a value of each kind; a
\* nested object is C.fromJson(_item).unsafeCoerce().
FromJsonValue(kind, j) ==
  CASE kind = "string" -> j.s
    [] kind = "id" -> NamedNode(j.o["@id"].s)
    [] kind = "date" -> NewDate(j.s)
    [] kind = "number" -> Num(j.n)
    [] kind = "gender" -> GenderFromJson(j.o)
    [] OTHER -> FromJson(NestedClass(kind, j), j).value

\* purify.Maybe.fromNullable(_jsonObject[key]).map(...)
FromNullable(o, key, kind) ==
  IF key \in DOMAIN o /\ o[key].t # "null"
  THEN PMaybe(Just(FromJsonValue(kind, o[key])))
  ELSE PMaybe(Nothing)

\* _jsonObject[key].map(...)
FromArray(o, key, kind) ==
  PArray([i \in DOMAIN o[key].a |-> FromJsonValue(kind, o[key].a[i])])

ThingPropertiesFromJson(o) ==
  [description |-> FromNullable(o, "description", "string"),
   identifier |-> PTerm(NamedNode(o["@id"].s)),
   identifiers |-> FromArray(o, "identifiers", "string"),
   name |-> FromNullable(o, "name", "string"),
   sameAs |-> FromArray(o, "sameAs", "id"),
   url |-> FromNullable(o, "url", "id")]

\* The properties C.propertiesFromJson returns in its Right, by class.
PropertiesFromJson(c, o) ==
  ThingPropertiesFromJson(o) @@
  CASE c = "Role" ->
         [endDate |-> FromNullable(o, "endDate", "date"),
          roleName |-> FromNullable(o, "roleName", "id"),
          startDate |-> FromNullable(o, "startDate", "date")]
    [] c = "Person" ->
         [birthDate |-> FromNullable(o, "birthDate", "date"),
          familyName |-> FromNullable(o, "familyName", "string"),
          gender |-> FromNullable(o, "gender", "gender"),
          givenName |-> FromNullable(o, "givenName", "string"),
          hasOccupation |-> FromArray(o, "hasOccupation", "occupationOrRole"),
          images |-> FromArray(o, "images", "image"),
          memberOf |-> FromArray(o, "memberOf", "id")]
    [] c = "Organization" ->
         [members |-> FromArray(o, "members", "id"),
          parentOrganizations |-> FromArray(o, "parentOrganizations", "id"),
          subOrganizations |-> FromArray(o, "subOrganizations", "id")]
    [] c = "QuantitiveValue" -> [value |-> FromNullable(o, "value", "number")]
    [] c = "ImageObject" ->
         [isBasedOn |-> FromArray(o, "isBasedOn", "id"),
          contentUrl |-> FromNullable(o, "contentUrl", "id"),
          encodingFormat |-> FromNullable(o, "encodingFormat", "string"),
          height |-> FromNullable(o, "height", "quantity"),
          width |-> FromNullable(o, "width", "quantity")]
    [] c \in {"Occupation", "GenderType"} -> <<>>

\* A nested fromJson returns Left, so that its unsafeCoerce() throws.
UnsafeCoerceThrows(c, o) ==
  CASE c = "Person" ->
         \/ \E i \in DOMAIN o["hasOccupation"].a :
              LET item == o["hasOccupation"].a[i]
              IN  FromJson(NestedClass("occupationOrRole", item), item).tag # "Right"
         \/ \E i \in DOMAIN o["images"].a :
              FromJson("ImageObject", o["images"].a[i]).tag # "Right"
    [] c = "ImageObject" ->
         \E key \in {"height", "width"} :
           /\ key \in DOMAIN o
           /\ o[key].t # "null"
           /\ FromJson("QuantitiveValue", o[key]).tag # "Right"
    [] OTHER -> FALSE

\* C.fromJson(json)
FromJson(c, j) ==
  IF ~JsonZodSchema(c, j) THEN LeftError("ZodError")
  ELSE IF ~SuperJsonZodSchemas(c, j) THEN LeftError("ZodError")
  ELSE IF UnsafeCoerceThrows(c, j.o) THEN Raised
  ELSE EitherOf(New(c, PropertiesFromJson(c, j.o)))

(* ---------------------------------------------------------------------- *)
(* toRdf                                                                   *)
(* ---------------------------------------------------------------------- *)

SchemaOrg(name) == "http://schema.org/" \o name

\* The class of the abstract supertype in place of that of the class
\* itself; TypeTriple does not hold of it.
RdfTypeOfSupertype(c) ==
  SchemaOrg(CASE c \in {"Role", "Occupation"} -> "Intangible"
              [] c = "QuantitiveValue" -> "StructuredValue"
              [] c = "ImageObject" -> "MediaObject"
              [] c = "GenderType" -> "Enumeration"
              [] OTHER -> "Thing")

\* The class C.fromRdfType names, which toRdf writes as rdf:type.
RdfTypeOf(c) ==
  SchemaOrg(IF c = "QuantitiveValue" THEN "QuantitativeValue" ELSE c)

Triple(s, p, o) == [s |-> s, p |-> p, o |-> o]

\* The dataset is a set of triples: a triple it holds is not added again.
\* The model keeps the triples in the order of their first insertion.
AddAll(g, triples) ==
  LET all == g \o triples
      first == {i \in DOMAIN all : \A k \in 1..(i - 1) : all[k] # all[i]}
  IN  [n \in 1..Cardinality(first) |->
         all[CHOOSE i \in first : Cardinality({k \in first : k < i}) = n - 1]]

\* The concatenation of the sequences of a sequence.
RECURSIVE Flatten(_)
Flatten(seqs) == IF seqs = <<>> THEN <<>> ELSE Head(seqs) \o Flatten(Tail(seqs))

\* A property toRdf writes: the predicate, the field written, how its values
\* become terms, and whether the field is an array.
Prop(name, field, kind, many) ==
  [predicate |-> SchemaOrg(name), field |-> field, kind |-> kind, many |-> many]

\* if (!ignoreRdfType) _resource.add(rdf:type, the class)
TypeProp == [predicate |-> RdfType, field |-> "type", kind |-> "type", many |-> FALSE]

ThingToRdf ==
  <<Prop("description", "description", "string", FALSE),
    Prop("identifier", "identifiers", "string", TRUE),
    Prop("name", "name", "string", FALSE),
    Prop("sameAs", "sameAs", "term", TRUE),
    Prop("url", "url", "term", FALSE)>>

\* The _resource.add calls of c.toRdf in order, those of super.toRdf first.
ToRdfProperties(c) ==
  ThingToRdf \o
  CASE c = "Role" ->
         <<TypeProp,
           Prop("endDate", "endDate", "date", FALSE),
           Prop("roleName", "roleName", "term", FALSE),
           Prop("startDate", "startDate", "date", FALSE)>>
    [] c = "Person" ->
         <<TypeProp,
           Prop("birthDate", "birthDate", "date", FALSE),
           Prop("familyName", "familyName", "string", FALSE),
           Prop("gender", "gender", "term", FALSE),
           Prop("givenName", "givenName", "string", FALSE),
           Prop("hasOccupation", "hasOccupation", "object", TRUE),
           Prop("image", "images", "object", TRUE),
           Prop("memberOf", "memberOf", "term", TRUE)>>
    [] c = "Organization" ->
         <<TypeProp,
           Prop("member", "members", "term", TRUE),
           Prop("parentOrganization", "parentOrganizations", "term", TRUE),
           Prop("subOrganization", "subOrganizations", "term", TRUE)>>
    [] c = "QuantitiveValue" -> <<TypeProp, Prop("value", "value", "number", FALSE)>>
    [] c = "ImageObject" ->
         <<Prop("isBasedOn", "isBasedOn", "term", TRUE),
           Prop("contentUrl", "contentUrl", "term", FALSE),
           Prop("encodingFormat", "encodingFormat", "string", FALSE),
           Prop("height", "height", "object", FALSE),
           Prop("width", "width", "object", FALSE),
           TypeProp>>
    [] c \in {"Occupation", "GenderType"} -> <<TypeProp>>

\* The values of a field, a Maybe or an array, as a sequence.
FieldValues(o, prop) ==
  IF prop.many THEN o[prop.field]
  ELSE IF o[prop.field].just THEN <<o[prop.field].value>>
  ELSE <<>>

\* The term written for a value: a string as a plain literal, a Date as an
\* xsd:date literal of its day, a number as rdfLiteral.toRdf writes it, an
\* object as the identifier of the resource its toRdf returns.
ToRdfValue(kind, v) ==
  CASE kind = "string" -> PlainLiteral(v)
    [] kind = "term" -> v
    [] kind = "date" -> Literal(StripTime(ToISOString(v)), "", XsdDate)
    [] kind = "number" -> PrimitiveToLiteral(PNumber(v))
    [] kind = "object" -> Identifier(v)

RECURSIVE Writes(_, _)

\* The triples one _resource.add(predicate, values) call of o.toRdf adds,
\* after those the toRdf calls of its argument add.
PropertyWrites(o, prop, ignoreRdfType) ==
  LET raw == FieldValues(o, prop)
      nested == IF prop.kind = "object"
                THEN Flatten([i \in DOMAIN raw |-> Writes(raw[i], FALSE)])
                ELSE <<>>
      terms == IF prop.kind = "type"
               THEN IF ignoreRdfType THEN <<>>
                    ELSE <<NamedNode(RdfTypeOf(o.type))>>
               ELSE [i \in DOMAIN raw |-> ToRdfValue(prop.kind, raw[i])]
  IN  nested \o [i \in DOMAIN terms |-> Triple(Identifier(o), prop.predicate, terms[i])]

\* The triples o.toRdf({ ignoreRdfType, resourceSet }) adds, in order.
Writes(o, ignoreRdfType) ==
  LET props == ToRdfProperties(o.type)
  IN  Flatten([i \in DOMAIN props |-> PropertyWrites(o, props[i], ignoreRdfType)])

\* The dataset after o.toRdf({ ignoreRdfType, resourceSet }) returned.
ToRdf(o, g, ignoreRdfType) == AddAll(g, Writes(o, ignoreRdfType))

\* o.toRdf throws: the identifier getter of a Role throws, or
\* rdfLiteral.toRdf calls toISOString() of an invalid Date, for the Date
\* fields toJson writes.
ToRdfThrows(o) == IdentifierThrows(o) \/ ToJsonThrows(o)

(* ---------------------------------------------------------------------- *)
(* fromRdf                                                                 *)
(* ---------------------------------------------------------------------- *)

\* rdfjsResource.Resource.ValueError: the focus resource and the predicate.
ValueError(focusResource, predicate) ==
  [type |-> "ValueError", focusResource |-> focusResource, predicate |-> predicate]

\* rdfjsResource.Resource.MistypedValueError: a ValueError that carries the
\* value found.
MistypedValueError(actualValue, focusResource, predicate) ==
  [type |-> "MistypedValueError", actualValue |-> actualValue,
   focusResource |-> focusResource, predicate |-> predicate]

\* _resource.values(predicate, { unique: true })
Values(g, s, p) ==
  LET Matches(t) == t.s = s /\ t.p = p
      found == SelectSeq(g, Matches)
  IN  [i \in DOMAIN found |-> found[i].o]

\* An isInstanceOf that takes every resource for an instance;
\* FromRdfChecksType does not hold of it.
IsInstanceOfAnything(g, s, class) == TRUE

\* _resource.isInstanceOf(class), in a dataset without rdfs:subClassOf.
IsInstanceOf(g, s, class) ==
  \E i \in DOMAIN g : g[i] = Triple(s, RdfType, NamedNode(class))

\* The number a numeric literal stands for.
NumFromString(str) ==
  IF \E n \in 0..9 : ToString(n) = str
  THEN Num(CHOOSE n \in 0..9 : ToString(n) = str)
  ELSE NaN

\* A property read under the name of its field, not that of the predicate
\* toRdf writes; Mirrored does not hold of it.
ReadFieldName(field, name, kind, many) ==
  [field |-> field, predicate |-> SchemaOrg(field), kind |-> kind, many |-> many]

\* A property propertiesFromRdf reads: the field, the predicate, the
\* conversion of each value, and whether all values or the first are read.
Read(field, name, kind, many) ==
  [field |-> field, predicate |-> SchemaOrg(name), kind |-> kind, many |-> many]

ThingFromRdf ==
  <<Read("description", "description", "toString", FALSE),
    Read("identifiers", "identifier", "toString", TRUE),
    Read("name", "name", "toString", FALSE),
    Read("sameAs", "sameAs", "toIri", TRUE),
    Read("url", "url", "toIri", FALSE)>>

\* The properties C.propertiesFromRdf reads, those of the supertypes first.
FromRdfProperties(c) ==
  ThingFromRdf \o
  CASE c = "Role" ->
         <<Read("endDate", "endDate", "toDate", FALSE),
           Read("roleName", "roleName", "toIri", FALSE),
           Read("startDate", "startDate", "toDate", FALSE)>>
    [] c = "Person" ->
         <<Read("birthDate", "birthDate", "toDate", FALSE),
           Read("familyName", "familyName", "toString", FALSE),
           Read("gender", "gender", "toTerm", FALSE),
           Read("givenName", "givenName", "toString", FALSE),
           Read("hasOccupation", "hasOccupation", "Occupation", TRUE),
           Read("images", "image", "ImageObject", TRUE),
           Read("memberOf", "memberOf", "toIri", TRUE)>>
    [] c = "Organization" ->
         <<Read("members", "member", "toIri", TRUE),
           Read("parentOrganizations", "parentOrganization", "toIri", TRUE),
           Read("subOrganizations", "subOrganization", "toIri", TRUE)>>
    [] c = "QuantitiveValue" -> <<Read("value", "value", "toNumber", FALSE)>>
    [] c = "ImageObject" ->
         <<Read("isBasedOn", "isBasedOn", "toIri", TRUE),
           Read("contentUrl", "contentUrl", "toIri", FALSE),
           Read("encodingFormat", "encodingFormat", "toString", FALSE),
           Read("height", "height", "QuantitiveValue", FALSE),
           Read("width", "width", "QuantitiveValue", FALSE)>>
    [] c \in {"Occupation", "GenderType"} -> <<>>

RECURSIVE FromRdf(_, _, _, _)

\* A conversion that tries Role.fromRdf before Occupation.fromRdf;
\* HasOccupationOrder does not hold of it.
FromRdfValueRoleFirst(kind, term, g) ==
  CASE kind = "toString" ->
         IF term.termType = "Literal" THEN Just(term.value) ELSE Nothing
    [] kind = "toIri" ->
         IF term.termType = "NamedNode" THEN Just(term) ELSE Nothing
    [] kind = "toTerm" -> Just(term)
    [] kind = "toDate" ->
         IF term.termType = "Literal" /\ NewDate(term.value).valid
         THEN Just(NewDate(term.value)) ELSE Nothing
    [] kind = "toNumber" ->
         IF term.termType = "Literal" /\ term.datatype \in {XsdInteger, XsdDouble}
         THEN Just(NumFromString(term.value)) ELSE Nothing
    [] OTHER ->
         IF term.termType # "NamedNode" THEN Nothing
         ELSE LET first == FromRdf(IF kind = "Occupation" THEN "Role" ELSE kind,
                                   g, term, TRUE)
                  either == IF first.tag = "Left" /\ kind = "Occupation"
                            THEN FromRdf("Occupation", g, term, TRUE)
                            ELSE first
              IN  IF either.tag = "Right" THEN Just(either.value) ELSE Nothing

\* The conversion of one value, .toMaybe(): Nothing where it is a Left. A
\* nested object is C.fromRdf({ ignoreRdfType: true, resource }) of the
\* named resource; for hasOccupation Occupation.fromRdf, and Role.fromRdf
\* where that is a Left.
FromRdfValue(kind, term, g) ==
  CASE kind = "toString" ->
         IF term.termType = "Literal" THEN Just(term.value) ELSE Nothing
    [] kind = "toIri" ->
         IF term.termType = "NamedNode" THEN Just(term) ELSE Nothing
    [] kind = "toTerm" -> Just(term)
    [] kind = "toDate" ->
         IF term.termType = "Literal" /\ NewDate(term.value).valid
         THEN Just(NewDate(term.value)) ELSE Nothing
    [] kind = "toNumber" ->
         IF term.termType = "Literal" /\ term.datatype \in {XsdInteger, XsdDouble}
         THEN Just(NumFromString(term.value)) ELSE Nothing
    [] OTHER ->
         IF term.termType # "NamedNode" THEN Nothing
         ELSE LET first == FromRdf(kind, g, term, TRUE)
                  either == IF first.tag = "Left" /\ kind = "Occupation"
                            THEN FromRdf("Role", g, term, TRUE)
                            ELSE first
              IN  IF either.tag = "Right" THEN Just(either.value) ELSE Nothing

\* The constructor parameter read for a property: of an optional field the
\* conversion of the first value, of an array the values that convert.
FromRdfProperty(prop, g, s) ==
  LET values == Values(g, s, prop.predicate)
      maybes == [i \in DOMAIN values |-> FromRdfValue(prop.kind, values[i], g)]
      IsJust(m) == m.just
      justs == SelectSeq(maybes, IsJust)
  IN  IF prop.many THEN PArray([i \in DOMAIN justs |-> justs[i].value])
      ELSE IF values = <<>> THEN PMaybe(Nothing)
      ELSE PMaybe(maybes[1])

\* The properties C.propertiesFromRdf returns in its Right.
PropertiesFromRdf(c, g, s) ==
  LET props == FromRdfProperties(c)
  IN  [f \in {props[i].field : i \in DOMAIN props} \cup {"identifier"} |->
         IF f = "identifier" THEN PTerm(s)
         ELSE FromRdfProperty(
                props[CHOOSE i \in DOMAIN props : props[i].field = f], g, s)]

\* A fromRdf that returns the Left of a value it cannot convert;
\* UnconvertibleNeverLeft does not hold of it.
FromRdfStrict(c, g, s, ignoreRdfType) ==
  LET props == FromRdfProperties(c)
      failed == {i \in DOMAIN props :
                   \E k \in DOMAIN Values(g, s, props[i].predicate) :
                     ~FromRdfValue(props[i].kind,
                                   Values(g, s, props[i].predicate)[k], g).just}
  IN  IF ~ignoreRdfType /\ ~IsInstanceOf(g, s, RdfTypeOf(c))
      THEN LeftError(ValueError(s, RdfTypeOf(c)))
      ELSE IF failed # {}
      THEN LeftError(ValueError(s, props[CHOOSE i \in failed : TRUE].predicate))
      ELSE EitherOf(New(c, PropertiesFromRdf(c, g, s)))

\* C.fromRdf({ ignoreRdfType, resource }) of the resource s of dataset g.
FromRdf(c, g, s, ignoreRdfType) ==
  IF ~ignoreRdfType /\ ~IsInstanceOf(g, s, RdfTypeOf(c))
  THEN LeftError(ValueError(s, RdfTypeOf(c)))
  ELSE IF c = "GenderType" /\ s.value \notin {SchemaOrg("Female"), SchemaOrg("Male")}
  THEN LeftError(MistypedValueError(
                   s, s, "http://www.w3.org/1999/02/22-rdf-syntax-ns#subject"))
  ELSE EitherOf(New(c, PropertiesFromRdf(c, g, s)))

(* ---------------------------------------------------------------------- *)
(* The objects the model constructs                                        *)
(* ---------------------------------------------------------------------- *)

\* The array of n copies of x.
RECURSIVE Repeat(_, _)
Repeat(x, n) == IF n = 0 THEN <<>> ELSE Append(Repeat(x, n - 1), x)

\* The arrays a constructor is given for an array field: x repeated up to
\* MaxLen times, and the arrays of more.
Arrays(x, more) ==
  {PArray(Repeat(x, n)) : n \in 1..MaxLen} \cup {PArray(a) : a \in more}

\* The Dates given: midnight UTC, a time of day, and the invalid Date.
DateChoices ==
  {PDate(ValidDate(1, Midnight)), PDate(ValidDate(1, 2)), PDate(InvalidDate)}

\* The constructor parameters of each class, supertype parameters first.
ThingParams == <<"description", "identifiers", "name", "sameAs", "url">>

ParamNames(c) ==
  CASE c = "Role" ->
         ThingParams \o <<"endDate", "identifier", "roleName", "startDate">>
    [] c = "Person" ->
         ThingParams \o <<"birthDate", "familyName", "gender", "givenName",
                          "hasOccupation", "identifier", "images", "memberOf">>
    [] c = "Organization" ->
         ThingParams \o <<"identifier", "members", "parentOrganizations",
                          "subOrganizations">>
    [] c = "Occupation" -> ThingParams \o <<"identifier">>
    [] c = "QuantitiveValue" -> ThingParams \o <<"identifier", "value">>
    [] c = "ImageObject" ->
         ThingParams \o <<"isBasedOn", "contentUrl", "encodingFormat",
                          "height", "identifier", "width">>
    [] c = "GenderType" -> ThingParams \o <<"identifier">>

\* The parameter a caller who sets nothing passes: omitted, except the
\* identifier every class but Role requires.
DefaultParam(c, f) ==
  IF f = "identifier" /\ c # "Role"
  THEN IF c = "GenderType" THEN PString("http://schema.org/Female")
       ELSE PString("http://example.com/" \o c \o "/1")
  ELSE Undefined

\* Nested objects given to Person and ImageObject.
DefaultParams(c) ==
  [f \in {ParamNames(c)[i] : i \in DOMAIN ParamNames(c)} |-> DefaultParam(c, f)]

SampleQuantity ==
  QuantitiveValueCtor([DefaultParams("QuantitiveValue") EXCEPT
                         !.value = PNumber(Num(1))])

SampleNaNQuantity ==
  QuantitiveValueCtor([DefaultParams("QuantitiveValue") EXCEPT
                         !.identifier = PString("http://example.com/QuantitiveValue/2"),
                         !.value = PNumber(NaN)])

SampleOccupation ==
  OccupationCtor([DefaultParams("Occupation") EXCEPT !.name = PString("b")])

SampleRole ==
  RoleCtor([DefaultParams("Role") EXCEPT
              !.roleName = PString("http://example.com/roleName"),
              !.startDate = PDate(ValidDate(2, Midnight))])

SampleImage ==
  ImageObjectCtor([DefaultParams("ImageObject") EXCEPT
                     !.height = PObject(SampleQuantity)])

\* The values a caller passes for parameter f of class c when it sets it.
Choices(c, f) ==
  CASE f = "description" -> {PString("a"), PString("ab")}
    [] f = "identifiers" -> Arrays("a", {<<"b">>, <<"a", "b">>, <<"b", "a">>})
    [] f = "name" -> {PString("b")}
    [] f = "sameAs" ->
         Arrays(NamedNode("http://example.com/same/1"),
                {<<NamedNode("http://example.com/same/1"),
                   NamedNode("http://example.com/same/2")>>,
                 <<NamedNode("http://example.com/same/2"),
                   NamedNode("http://example.com/same/1")>>})
    [] f = "url" -> {PTerm(NamedNode("http://example.com/url"))}
    [] f \in {"endDate", "birthDate"} -> DateChoices
    [] f = "startDate" -> {PDate(ValidDate(2, Midnight))}
    [] f = "roleName" -> {PString("http://example.com/roleName")}
    [] f = "identifier" ->
         IF c = "GenderType" THEN {PTerm(NamedNode("http://schema.org/Male"))}
         ELSE {PTerm(NamedNode("http://example.com/" \o c \o "/2"))}
    [] f = "familyName" -> {PString("f")}
    [] f = "givenName" -> {PString("g")}
    [] f = "gender" ->
         {PTerm(BlankNode("b0")), PTerm(NamedNode("http://schema.org/Female")),
          PTerm(LangLiteral("x", "en")), PTerm(Literal("1", "", XsdInteger)),
          PString("x")}
    [] f = "hasOccupation" -> Arrays(SampleOccupation,
                {<<SampleRole>>, <<SampleOccupation, SampleRole>>})
    [] f = "images" -> Arrays(SampleImage, {})
    [] f = "memberOf" -> Arrays(NamedNode("http://example.com/org/1"), {})
    [] f = "members" ->
         Arrays(NamedNode("http://example.com/person/1"),
                {<<NamedNode("http://example.com/person/1"),
                   NamedNode("http://example.com/person/2")>>})
    [] f = "parentOrganizations" -> Arrays(NamedNode("http://example.com/org/1"), {})
    [] f = "subOrganizations" -> Arrays(NamedNode("http://example.com/org/2"), {})
    [] f = "value" -> {PNumber(Num(1)), PNumber(Num(2)), PNumber(NaN)}
    [] f = "isBasedOn" -> Arrays(NamedNode("http://example.com/work/1"), {})
    [] f = "contentUrl" -> {PString("http://example.com/content")}
    [] f = "encodingFormat" -> {PString("image/png")}
    [] f = "height" -> {PObject(SampleQuantity), PObject(SampleNaNQuantity)}
    [] f = "width" -> {PObject(SampleQuantity)}

\* The parameter records for class c that set at most k of the parameters
\* names[i..].
RECURSIVE ParamsFrom(_, _, _, _)
ParamsFrom(c, names, i, k) ==
  IF i > Len(names) THEN {<<>>}
  ELSE LET f == names[i]
       IN  {(f :> DefaultParam(c, f)) @@ r : r \in ParamsFrom(c, names, i + 1, k)}
           \cup
           (IF k = 0 THEN {}
            ELSE {(f :> v) @@ r :
                    v \in Choices(c, f), r \in ParamsFrom(c, names, i + 1, k - 1)})

\* The constructor calls of the model: at most MaxFields parameters set.
Parameters(c) == ParamsFrom(c, ParamNames(c), 1, MaxFields)

\* The objects of the model.
Objects == UNION {{New(c, p) : p \in Parameters(c)} : c \in Classes}

(* ---------------------------------------------------------------------- *)
(* Hashing an object, and reading a Role's identifier                      *)
(* ---------------------------------------------------------------------- *)

Roles == {o \in Objects : o.type = "Role"}

\* A hasher the caller passes: fresh, or one that already took updates.
InitHash ==
  /\ obj \in Objects
  /\ other = obj
  /\ hasher \in {NewHasher, Update(NewHasher, "prior")}
  /\ graph = <<>>
  /\ input = <<>>
  /\ result = <<>>

InitIdentifier ==
  /\ obj \in Roles
  /\ other = obj
  /\ hasher \in {NewHasher, Update(NewHasher, "prior")}
  /\ graph = <<>>
  /\ input = <<>>
  /\ result = <<>>

\* obj.hash(hasher): the updates the call issues go to the caller's hasher,
\* and the call either returns a hasher or throws.
HashOp ==
  /\ Len(result) < MaxCalls
  /\ LET before == Len(hasher.updates)
         after == Hash(obj, [hasher EXCEPT !.thrown = FALSE])
     IN  /\ hasher' = after
         /\ result' = Append(result,
                        [op |-> "hash",
                         issued |-> SubSeq(after.updates, before + 1,
                                           Len(after.updates)),
                         thrown |-> after.thrown,
                         returned |-> HashReturn(after)])
  /\ UNCHANGED <<obj, other, graph, input>>

\* obj.identifier: the getter returns a term or throws.
IdentifierOp ==
  /\ Len(result) < MaxCalls
  /\ result' = Append(result,
                 [op |-> "identifier",
                  thrown |-> IdentifierThrows(obj),
                  value |-> IF IdentifierThrows(obj) THEN NamedNode("")
                            ELSE Identifier(obj)])
  /\ UNCHANGED <<obj, other, hasher, graph, input>>

NextHash == HashOp

SpecHash == InitHash /\ [][NextHash]_vars

NextIdentifier == HashOp \/ IdentifierOp

SpecIdentifier == InitIdentifier /\ [][NextIdentifier]_vars

(* ---------------------------------------------------------------------- *)
(* Comparing two objects                                                   *)
(* ---------------------------------------------------------------------- *)

\* The parameters a constructor call sets.
SetParams(c, p) == {f \in DOMAIN p : p[f] # DefaultParam(c, f)}

\* The calls that differ from the call p of class c by leaving out some of
\* the parameters p sets, or by another value for one of them.
Variants(c, p) ==
  {[f \in DOMAIN p |-> IF f \in S THEN p[f] ELSE DefaultParam(c, f)] :
     S \in SUBSET SetParams(c, p)}
  \cup
  UNION {{[p EXCEPT ![f] = v] : v \in Choices(c, f)} : f \in SetParams(c, p)}

\* Objects of another class that Thing.equals(other: Thing), which
\* Occupation and GenderType inherit, accepts as argument.
Strangers(c, p) ==
  IF c \in {"Occupation", "GenderType"}
  THEN {New(d, [DefaultParams(d) EXCEPT !.identifier = p.identifier]) :
          d \in {"Organization", "QuantitiveValue"}}
  ELSE {}

NoResult == [op |-> "none"]

InitEquals ==
  \E c \in Classes : \E p \in Parameters(c) :
    /\ obj = New(c, p)
    /\ other \in {New(c, q) : q \in Variants(c, p)} \cup Strangers(c, p)
    /\ hasher = NewHasher
    /\ graph = <<>>
    /\ input = <<>>
    /\ result = NoResult

\* obj.equals(other)
EqualsOp ==
  /\ result.op # "equals"
  /\ obj.type \in Classes
  /\ other.type \in Classes
  /\ other.type = obj.type \/ obj.type \in {"Occupation", "GenderType"}
  /\ result' = [op |-> "equals", value |-> ObjectEquals(obj, other)]
  /\ obj' = AfterIdentifier(obj)
  /\ other' = AfterIdentifier(other)
  /\ UNCHANGED <<hasher, graph, input>>

NextEquals == EqualsOp

SpecEquals == InitEquals /\ [][NextEquals]_vars

(* ---------------------------------------------------------------------- *)
(* Constructing an object from parameters of different shapes              *)
(* ---------------------------------------------------------------------- *)

ArrayParams ==
  {"identifiers", "sameAs", "hasOccupation", "images", "memberOf", "members",
   "parentOrganizations", "subOrganizations", "isBasedOn"}

IriParams == {"url", "roleName", "contentUrl"}

\* The parameter value v of parameter f in another shape the constructor
\* accepts for the same value: wrapped in a Maybe (an empty array for an
\* omitted array), or as the rdfjs term in place of a string and back.
Reshape(kind, f, v) ==
  IF f \in ArrayParams
  THEN IF v.shape = "undefined" /\ kind = "wrapped" THEN PArray(<<>>) ELSE v
  ELSE IF f = "identifier"
  THEN CASE v.shape = "string" -> PTerm(NamedNode(v.str))
         [] v.shape = "object" -> PString(v.term.value)
         [] OTHER -> v
  ELSE IF kind = "wrapped"
  THEN CASE v.shape = "undefined" -> PMaybe(Nothing)
         [] v.shape = "string" ->
              PMaybe(Just(IF f \in IriParams THEN NamedNode(v.str)
                          ELSE IF f = "gender" THEN PlainLiteral(v.str)
                          ELSE v.str))
         [] v.shape = "object" -> PMaybe(Just(v.term))
         [] v.shape = "date" -> PMaybe(Just(v.date))
         [] v.shape = "number" -> PMaybe(Just(v.num))
         [] v.shape = "instance" -> PMaybe(Just(v.inst))
         [] OTHER -> v
  ELSE CASE v.shape = "string" /\ f \in IriParams -> PTerm(NamedNode(v.str))
         [] v.shape = "string" /\ f = "gender" -> PTerm(PlainLiteral(v.str))
         [] v.shape = "object" /\ f \in IriParams -> PString(v.term.value)
         [] OTHER -> v

NotConstructed == [type |-> "none"]

\* Two constructor calls of one class that pass the same values, the second
\* in other shapes.
InitCtor ==
  \E c \in Classes : \E p \in Parameters(c) : \E kind \in {"wrapped", "native"} :
    /\ input = [class |-> c,
                raw |-> p,
                reshaped |-> [f \in DOMAIN p |-> Reshape(kind, f, p[f])]]
    /\ obj = NotConstructed
    /\ other = NotConstructed
    /\ hasher = NewHasher
    /\ graph = <<>>
    /\ result = NoResult

\* new C(raw) and new C(reshaped)
ConstructOp ==
  /\ obj = NotConstructed
  /\ obj' = New(input.class, input.raw)
  /\ other' = New(input.class, input.reshaped)
  /\ UNCHANGED <<hasher, graph, input, result>>

NextCtor == ConstructOp \/ EqualsOp

SpecCtor == InitCtor /\ [][NextCtor]_vars

(* ---------------------------------------------------------------------- *)
(* Comparing two arrays                                                    *)
(* ---------------------------------------------------------------------- *)

\* The arrays of at most MaxLen elements of a set.
ArraysOf(elements) == UNION {[1..n -> elements] : n \in 0..MaxLen}

\* The element comparisons arrayEquals is called with, each with the
\* elements it compares: strings, numbers, and objects by their equals.
Comparisons ==
  {[elementEquals |-> "strictEquals", elements |-> {"a", "b"}],
   [elementEquals |-> "strictEqualsNumber", elements |-> {Num(1), Num(2), NaN}],
   [elementEquals |-> "equals", elements |-> {SampleQuantity, SampleNaNQuantity}]}

InitArrayEquals ==
  /\ \E c \in Comparisons :
       \E leftArray \in ArraysOf(c.elements), rightArray \in ArraysOf(c.elements) :
         input = [leftArray |-> leftArray, rightArray |-> rightArray,
                  elementEquals |-> c.elementEquals]
  /\ obj = NotConstructed
  /\ other = NotConstructed
  /\ hasher = NewHasher
  /\ graph = <<>>
  /\ result = NoResult

\* arrayEquals(leftArray, rightArray, elementEquals)
ArrayEqualsOp ==
  /\ result = NoResult
  /\ result' = [op |-> "arrayEquals",
                value |-> arrayEquals(input.leftArray, input.rightArray,
                                      input.elementEquals),
                calls |-> arrayEqualsCalls(input.leftArray, input.rightArray,
                                           input.elementEquals)]
  /\ UNCHANGED <<obj, other, hasher, graph, input>>

NextArrayEquals == ArrayEqualsOp

SpecArrayEquals == InitArrayEquals /\ [][NextArrayEquals]_vars

(* ---------------------------------------------------------------------- *)
(* Comparing two optional values                                           *)
(* ---------------------------------------------------------------------- *)

\* The Maybes of a set of values.
MaybesOf(values) == {Nothing} \cup {Just(v) : v \in values}

\* The value comparisons maybeEquals is called with, each with the values it
\* compares: the ones the classes pass, which return an EqualsResult, and a
\* caller's own that returns a boolean.
MaybeComparisons ==
  {[valueEquals |-> "strictEquals", values |-> {"a", "b"}],
   [valueEquals |-> "strictEqualsNumber", values |-> {Num(1), Num(2), NaN}],
   [valueEquals |-> "booleanEquals",
    values |-> {NamedNode("http://example.com/url"), BlankNode("b0"),
                PlainLiteral("x")}],
   [valueEquals |-> "dateEquals",
    values |-> {ValidDate(1, Midnight), ValidDate(1, 2), InvalidDate}],
   [valueEquals |-> "equals", values |-> {SampleQuantity, SampleNaNQuantity}],
   [valueEquals |-> "(left, right) => left === right", values |-> {"a", "b"}]}

InitMaybeEquals ==
  /\ \E c \in MaybeComparisons :
       \E leftMaybe \in MaybesOf(c.values), rightMaybe \in MaybesOf(c.values) :
         input = [leftMaybe |-> leftMaybe, rightMaybe |-> rightMaybe,
                  valueEquals |-> c.valueEquals]
  /\ obj = NotConstructed
  /\ other = NotConstructed
  /\ hasher = NewHasher
  /\ graph = <<>>
  /\ result = NoResult

\* maybeEquals(leftMaybe, rightMaybe, valueEquals)
MaybeEqualsOp ==
  /\ result = NoResult
  /\ result' = [op |-> "maybeEquals",
                value |-> maybeEquals(input.leftMaybe, input.rightMaybe,
                                      input.valueEquals)]
  /\ UNCHANGED <<obj, other, hasher, graph, input>>

NextMaybeEquals == MaybeEqualsOp

SpecMaybeEquals == InitMaybeEquals /\ [][NextMaybeEquals]_vars

(* ---------------------------------------------------------------------- *)
(* Writing an object as JSON and reading it back                           *)
(* ---------------------------------------------------------------------- *)

NoJson == [class |-> "none", json |-> JNull]

InitJson ==
  /\ obj \in Objects
  /\ other = NotConstructed
  /\ hasher = NewHasher
  /\ graph = <<>>
  /\ input = NoJson
  /\ result = NoResult

\* obj.toJson()
ToJsonOp ==
  /\ input = NoJson
  /\ obj.type \in Classes
  /\ input' = [class |-> obj.type, json |-> ToJson(obj)]
  /\ obj' = AfterIdentifier(obj)
  /\ UNCHANGED <<other, hasher, graph, result>>

\* C.fromJson(json), of the JSON toJson returned or the caller passed.
FromJsonOp ==
  /\ result = NoResult
  /\ "json" \in DOMAIN input
  /\ input.class \in Classes
  /\ input.json # JThrown
  /\ LET either == FromJson(input.class, input.json)
     IN  /\ result' = [op |-> "fromJson", value |-> either]
         /\ other' = IF either.tag = "Right" THEN either.value
                     ELSE NotConstructed
  /\ UNCHANGED <<obj, hasher, graph, input>>

NextJson == ToJsonOp \/ FromJsonOp \/ EqualsOp

SpecJson == InitJson /\ [][NextJson]_vars

(* ---------------------------------------------------------------------- *)
(* Reading JSON of any shape                                               *)
(* ---------------------------------------------------------------------- *)

\* Values of each JSON type, to stand where a schema expects another.
Junk ==
  {JNull, JNumber(1), JString(""), JString("x"), JString("Role"),
   JString("2020-01-02"), JArray(<<>>), JArray(<<JNull>>), JObject(<<>>),
   JObject("@id" :> JString("")), JObject("type" :> JString("Role"))}

\* The JSON values that differ from j in one place, at any depth: a key
\* left out, or a value replaced by one of Junk.
RECURSIVE Damaged(_)
Damaged(j) ==
  IF j.t = "object"
  THEN {JObject([x \in DOMAIN j.o \ {k} |-> j.o[x]]) : k \in DOMAIN j.o}
       \cup
       UNION {{JObject([j.o EXCEPT ![k] = b]) : b \in Junk \cup Damaged(j.o[k])} :
                k \in DOMAIN j.o}
  ELSE IF j.t = "array"
  THEN UNION {{JArray([j.a EXCEPT ![i] = b]) : b \in Junk \cup Damaged(j.a[i])} :
                i \in DOMAIN j.a}
  ELSE {}

\* The JSON of the objects of class c that set at most one parameter.
JsonOf(c) ==
  {ToJson(New(c, p)) : p \in ParamsFrom(c, ParamNames(c), 1, 1)} \ {JThrown}

\* fromJson of class c is given the JSON of an object of any class, a value
\* that is no object, or the JSON of an object of c damaged in one place.
InitFromJson ==
  \E c \in Classes :
    /\ \E j \in Junk \cup UNION {JsonOf(d) : d \in Classes}
                  \cup UNION {Damaged(k) : k \in JsonOf(c)} :
         input = [class |-> c, json |-> j]
    /\ obj = NotConstructed
    /\ other = NotConstructed
    /\ hasher = NewHasher
    /\ graph = <<>>
    /\ result = NoResult

NextFromJson == FromJsonOp

SpecFromJson == InitFromJson /\ [][NextFromJson]_vars

\* toJson of an object and fromJson of what it returned, or fromJson of
\* JSON of any shape.
InitJsonShape == InitJson \/ InitFromJson

NextJsonShape == ToJsonOp \/ FromJsonOp

SpecJsonShape == InitJsonShape /\ [][NextJsonShape]_vars

(* ---------------------------------------------------------------------- *)
(* Writing an object to a dataset and reading a resource of it             *)
(* ---------------------------------------------------------------------- *)

\* The class a caller reads a resource with, other than that of the object
\* written.
Readers(c) == {c, "Occupation", "GenderType"}

\* An empty resource set, the ignoreRdfType the caller passes to toRdf and
\* to fromRdf, and the class whose fromRdf it calls.
InitRdf ==
  /\ obj \in Objects
  /\ other = NotConstructed
  /\ hasher = NewHasher
  /\ graph = <<>>
  /\ \E c \in Readers(obj.type), w \in BOOLEAN, r \in BOOLEAN :
       input = [class |-> c, toRdfIgnoreRdfType |-> w, ignoreRdfType |-> r]
  /\ result = NoResult

\* obj.toRdf({ ignoreRdfType, resourceSet })
ToRdfOp ==
  /\ result = NoResult
  /\ "toRdfIgnoreRdfType" \in DOMAIN input
  /\ obj.type \in Classes
  /\ IF ToRdfThrows(obj)
     THEN /\ result' = [op |-> "toRdf", thrown |-> TRUE]
          /\ graph' = graph
     ELSE /\ result' = [op |-> "toRdf", thrown |-> FALSE,
                        resource |-> Identifier(obj)]
          /\ graph' = ToRdf(obj, graph, input.toRdfIgnoreRdfType)
  /\ obj' = AfterIdentifier(obj)
  /\ UNCHANGED <<other, hasher, input>>

\* C.fromRdf({ ignoreRdfType, resource }) of the resource toRdf returned.
FromRdfOp ==
  /\ result.op \in {"toRdf", "add"}
  /\ ~result.thrown
  /\ LET either == FromRdf(input.class, graph, result.resource,
                           input.ignoreRdfType)
     IN  /\ result' = [op |-> "fromRdf", value |-> either]
         /\ other' = IF either.tag = "Right" THEN either.value
                     ELSE NotConstructed
  /\ UNCHANGED <<obj, hasher, graph, input>>

NextRdf == ToRdfOp \/ FromRdfOp \/ EqualsOp

SpecRdf == InitRdf /\ [][NextRdf]_vars

(* ---------------------------------------------------------------------- *)
(* Reading a resource of a dataset that others have written to             *)
(* ---------------------------------------------------------------------- *)

\* The objects written here: those that set at most one parameter.
Written ==
  UNION {{New(c, p) : p \in ParamsFrom(c, ParamNames(c), 1, 1)} : c \in Classes}

\* The terms of the triples another party adds about the resource.
ForeignTerms ==
  {PlainLiteral("x"), BlankNode("b1"), NamedNode("http://example.com/foreign"),
   NamedNode("http://schema.org/GenderType"), Literal("1", "", XsdInteger)}

\* The triples another party adds about resource s, read as class c: a
\* type, or a value of one of the predicates propertiesFromRdf reads.
ForeignTriples(s, c) ==
  {Triple(s, p, o) :
     p \in {RdfType} \cup
           {FromRdfProperties(c)[i].predicate : i \in DOMAIN FromRdfProperties(c)},
     o \in ForeignTerms}

InitDataset ==
  /\ obj \in Written
  /\ other = NotConstructed
  /\ hasher = NewHasher
  /\ graph = <<>>
  /\ \E c \in Readers(obj.type), w \in BOOLEAN, r \in BOOLEAN :
       input = [class |-> c, toRdfIgnoreRdfType |-> w, ignoreRdfType |-> r]
  /\ result = NoResult

\* dataset.add(quad), by another party, about the resource toRdf returned.
AddOp ==
  /\ result.op = "toRdf"
  /\ ~result.thrown
  /\ \E t \in ForeignTriples(result.resource, obj.type) :
       graph' = AddAll(graph, <<t>>)
  /\ result' = [result EXCEPT !.op = "add"]
  /\ UNCHANGED <<obj, other, hasher, input>>

NextDataset == ToRdfOp \/ AddOp \/ FromRdfOp

SpecDataset == InitDataset /\ [][NextDataset]_vars

(* ---------------------------------------------------------------------- *)
(* Writing an object as JSON or to a dataset, and reading it back          *)
(* ---------------------------------------------------------------------- *)

InitMirror == InitJson \/ InitRdf

NextMirror == ToJsonOp \/ FromJsonOp \/ ToRdfOp \/ FromRdfOp

SpecMirror == InitMirror /\ [][NextMirror]_vars

\* Reading JSON of any shape, or a resource of a dataset others have
\* written to.
InitDecode == InitFromJson \/ InitDataset

NextDecode == FromJsonOp \/ ToRdfOp \/ AddOp \/ FromRdfOp

SpecDecode == InitDecode /\ [][NextDecode]_vars

(* ---------------------------------------------------------------------- *)
(* Assigning to the properties of constructed objects                      *)
(* ---------------------------------------------------------------------- *)

\* Every array property taken for assignable; MutableProperties does not
\* hold of it.
MutableArrays(c) ==
  {"identifiers", "sameAs"} \cup
  CASE c = "Person" -> {"hasOccupation", "images", "memberOf"}
    [] c = "Organization" -> {"members", "parentOrganizations", "subOrganizations"}
    [] c = "ImageObject" -> {"isBasedOn"}
    [] OTHER -> {}

\* The properties class c declares without readonly, which the compiler
\* lets a caller assign. Role declares _identifier without readonly too,
\* but private: no caller reaches it, and no method assigns it.
Mutable(c) ==
  CASE c = "Person" -> {"memberOf"}
    [] c = "Organization" -> {"members", "parentOrganizations", "subOrganizations"}
    [] OTHER -> {}

\* The arrays a caller assigns.
AssignedValues == {<<>>, <<NamedNode("http://example.com/assigned")>>}

\* Two objects, each as constructed from the parameters a caller must pass.
InitAssign ==
  /\ obj \in {New(c, DefaultParams(c)) : c \in Classes}
  /\ other \in {New(c, DefaultParams(c)) : c \in Classes}
  /\ hasher = NewHasher
  /\ graph = <<>>
  /\ input = <<>>
  /\ result = <<>>

\* x.property = value, for a property the class of x lets a caller assign.
AssignOp ==
  /\ Len(result) < MaxCalls
  /\ \E target \in {"obj", "other"} :
       LET x == IF target = "obj" THEN obj ELSE other
       IN  \E property \in Mutable(x.type), value \in AssignedValues :
             /\ obj' = IF target = "obj" THEN [obj EXCEPT ![property] = value]
                       ELSE obj
             /\ other' = IF target = "other" THEN [other EXCEPT ![property] = value]
                         ELSE other
             /\ result' = Append(result, [op |-> "assign", class |-> x.type,
                                          property |-> property])
  /\ UNCHANGED <<hasher, graph, input>>

NextAssign == AssignOp

SpecAssign == InitAssign /\ [][NextAssign]_vars

(* ---------------------------------------------------------------------- *)
(* Calling the methods of an object one after another                      *)
(* ---------------------------------------------------------------------- *)

\* An object and the argument of equals, a hasher fresh or used, an empty
\* dataset, and a caller that goes on to toJson or to toRdf.
InitMethods ==
  /\ obj \in Written
  /\ other \in {obj, New(obj.type, DefaultParams(obj.type))}
  /\ hasher \in {NewHasher, Update(NewHasher, "prior")}
  /\ graph = <<>>
  /\ input \in {NoJson,
                [class |-> obj.type, toRdfIgnoreRdfType |-> FALSE,
                 ignoreRdfType |-> FALSE]}
  /\ result = NoResult

\* obj.hash(hasher), once, of the hasher as the caller made it.
HashOnceOp ==
  /\ result.op # "hash"
  /\ hasher \in {NewHasher, Update(NewHasher, "prior")}
  /\ LET after == Hash(obj, [hasher EXCEPT !.thrown = FALSE])
     IN  /\ hasher' = after
         /\ result' = [op |-> "hash", thrown |-> after.thrown,
                       returned |-> HashReturn(after)]
  /\ UNCHANGED <<obj, other, graph, input>>

\* obj.toString(): JSON.stringify(this.toJson()), the string that holds the
\* JSON toJson returns.
ToStringOp ==
  /\ result.op # "toString"
  /\ obj.type \in Classes
  /\ result' = [op |-> "toString", string |-> ToJson(obj)]
  /\ obj' = AfterIdentifier(obj)
  /\ UNCHANGED <<other, hasher, graph, input>>

NextMethods == EqualsOp \/ HashOnceOp \/ ToJsonOp \/ ToStringOp \/ ToRdfOp

SpecMethods == InitMethods /\ [][NextMethods]_vars

(* ---------------------------------------------------------------------- *)
(* Comparing and hashing three objects of one class                        *)
(* ---------------------------------------------------------------------- *)

\* The calls a caller makes on three objects a, b and c of one class, in
\* this order.
Calls ==
  <<[op |-> "equals", this |-> "a", that |-> "b"],
    [op |-> "equals", this |-> "b", that |-> "a"],
    [op |-> "equals", this |-> "b", that |-> "c"],
    [op |-> "equals", this |-> "a", that |-> "c"],
    [op |-> "hash", this |-> "a", that |-> "a"],
    [op |-> "hash", this |-> "b", that |-> "b"],
    [op |-> "identifier", this |-> "a", that |-> "a"],
    [op |-> "identifier", this |-> "b", that |-> "b"]>>

\* The object a call names: a is obj, b is other, c is input.third.
Named(name) ==
  CASE name = "a" -> obj
    [] name = "b" -> other
    [] name = "c" -> input.third

InitRelation ==
  /\ obj \in Written
  /\ other \in {o \in Written : o.type = obj.type}
  /\ \E c \in {o \in Written : o.type = obj.type} : input = [third |-> c]
  /\ hasher = NewHasher
  /\ graph = <<>>
  /\ result = <<>>

\* this.equals(that), the next call of the caller.
EqualsCallOp ==
  /\ Len(result) < Len(Calls)
  /\ Calls[Len(result) + 1].op = "equals"
  /\ LET call == Calls[Len(result) + 1]
     IN  result' = Append(result,
                     [op |-> "equals", this |-> call.this, that |-> call.that,
                      value |-> ObjectEquals(Named(call.this), Named(call.that))])
  /\ obj' = AfterIdentifier(obj)
  /\ other' = AfterIdentifier(other)
  /\ input' = [third |-> AfterIdentifier(input.third)]
  /\ UNCHANGED <<hasher, graph>>

\* this.hash(sha256.create()), the next call of the caller.
HashCallOp ==
  /\ Len(result) < Len(Calls)
  /\ Calls[Len(result) + 1].op = "hash"
  /\ LET call == Calls[Len(result) + 1]
         Issued(after) ==
           /\ hasher' = after
           /\ result' = Append(result,
                          [op |-> "hash", this |-> call.this, that |-> call.that,
                           issued |-> after.updates, thrown |-> after.thrown])
     IN  Issued(Hash(Named(call.this), NewHasher))
  /\ UNCHANGED <<obj, other, graph, input>>

\* this.identifier, the next call of the caller: the getter returns a term
\* or throws.
IdentifierCallOp ==
  /\ Len(result) < Len(Calls)
  /\ Calls[Len(result) + 1].op = "identifier"
  /\ LET call == Calls[Len(result) + 1]
     IN  result' = Append(result,
                     [op |-> "identifier", this |-> call.this, that |-> call.that,
                      thrown |-> IdentifierThrows(Named(call.this)),
                      value |-> IF IdentifierThrows(Named(call.this))
                                THEN NamedNode("")
                                ELSE Identifier(Named(call.this))])
  /\ obj' = AfterIdentifier(obj)
  /\ other' = AfterIdentifier(other)
  /\ UNCHANGED <<hasher, graph, input>>

NextRelation == EqualsCallOp \/ HashCallOp \/ IdentifierCallOp

SpecRelation == InitRelation /\ [][NextRelation]_vars

(* ---------------------------------------------------------------------- *)
(* Writing an object to one dataset twice                                  *)
(* ---------------------------------------------------------------------- *)

\* The set of the triples of a dataset.
TriplesIn(g) == {g[i] : i \in DOMAIN g}

InitTwice ==
  /\ obj \in Objects
  /\ other = NotConstructed
  /\ hasher = NewHasher
  /\ graph = <<>>
  /\ \E w \in BOOLEAN, r \in BOOLEAN :
       input = [class |-> obj.type, toRdfIgnoreRdfType |-> w, ignoreRdfType |-> r]
  /\ result = <<>>

\* obj.toRdf({ ignoreRdfType, resourceSet }), the first or the second call
\* with the same resource set.
ToRdfAgainOp ==
  /\ Len(result) \in {0, 2}
  /\ IF ToRdfThrows(obj)
     THEN /\ graph' = graph
          /\ result' = Append(result, [op |-> "toRdf", thrown |-> TRUE,
                                       triples |-> TriplesIn(graph)])
     ELSE LET Added(g) ==
                /\ graph' = g
                /\ result' = Append(result, [op |-> "toRdf", thrown |-> FALSE,
                                             triples |-> TriplesIn(g)])
          IN  Added(ToRdf(obj, graph, input.toRdfIgnoreRdfType))
  /\ obj' = AfterIdentifier(obj)
  /\ UNCHANGED <<other, hasher, input>>

\* C.fromRdf({ ignoreRdfType, resource }) of the resource the toRdf call
\* before it returned.
FromRdfAgainOp ==
  /\ Len(result) \in {1, 3}
  /\ ~result[Len(result)].thrown
  /\ LET Decoded(either) ==
           /\ result' = Append(result, [op |-> "fromRdf", value |-> either])
           /\ other' = IF either.tag = "Right" THEN either.value
                       ELSE NotConstructed
     IN  Decoded(FromRdf(input.class, graph, Identifier(obj), input.ignoreRdfType))
  /\ UNCHANGED <<obj, hasher, graph, input>>

\* y1.equals(y2) of the object decoded after the first toRdf and the object
\* decoded after the second.
EqualsDecodedOp ==
  /\ Len(result) = 4
  /\ result[2].value.tag = "Right"
  /\ result[4].value.tag = "Right"
  /\ result' = Append(result,
                 [op |-> "equals",
                  value |-> ObjectEquals(result[2].value.value,
                                         result[4].value.value)])
  /\ UNCHANGED <<obj, other, hasher, graph, input>>

NextTwice == ToRdfAgainOp \/ FromRdfAgainOp \/ EqualsDecodedOp

SpecTwice == InitTwice /\ [][NextTwice]_vars

(* ---------------------------------------------------------------------- *)
(* Properties of hashing                                                   *)
(* ---------------------------------------------------------------------- *)

IsPrefix(p, q) == Len(p) <= Len(q) /\ SubSeq(q, 1, Len(p)) = p

HashCalls == {i \in DOMAIN result : result[i].op = "hash"}

IdentifierReads == {i \in DOMAIN result : result[i].op = "identifier"}

MaybeUpdates(m) == IF m.just THEN <<m.value>> ELSE <<>>

MaybeTermUpdates(m) ==
  IF m.just THEN <<m.value.termType, m.value.value>> ELSE <<>>

RECURSIVE TermUpdates(_)
TermUpdates(terms) ==
  IF terms = <<>> THEN <<>>
  ELSE <<Head(terms).termType, Head(terms).value>> \o TermUpdates(Tail(terms))

\* The updates of the Thing fields, in the order the claim gives.
ThingUpdates(o) ==
  MaybeUpdates(o.description) \o o.identifiers \o MaybeUpdates(o.name) \o
  TermUpdates(o.sameAs) \o MaybeTermUpdates(o.url)

\* The updates of all supertype fields that come before the first field of
\* the class itself.
SupertypeUpdates(o) ==
  IF o.type = "ImageObject"
  THEN ThingUpdates(o) \o TermUpdates(o.isBasedOn) \o
       MaybeTermUpdates(o.contentUrl) \o MaybeUpdates(o.encodingFormat)
  ELSE ThingUpdates(o)

\* The object has no optional field present and no array element.
Bare(o) ==
  o = New(o.type,
          [DefaultParams(o.type) EXCEPT
             !.identifier = IF o.type # "Role" THEN PTerm(o.identifier)
                            ELSE IF o._identifier.just
                                 THEN PTerm(o._identifier.value)
                                 ELSE Undefined])

\* C9: hash feeds the hasher in a fixed order. Each call issues the
\* supertype fields first, the Thing fields as description, identifiers,
\* name, sameAs (termType, value), url (termType, value); absent fields and
\* empty arrays issue nothing; and the value returned is the given hasher.
HashOrder ==
  \A i \in HashCalls :
    /\ IsPrefix(SupertypeUpdates(obj), result[i].issued)
    /\ Bare(obj) =>
         result[i].issued =
           IF obj.type = "Role" THEN <<>> ELSE <<obj.identifier.value>>
    /\ (i = Len(result) /\ ~result[i].thrown) => result[i].returned = hasher

\* An object with a description, two sameAs terms and fields of its own
\* was hashed into a hasher that held an update.
HashOrderWitness ==
  /\ HashCalls # {}
  /\ hasher.updates[1] = "prior"
  /\ obj.description.just
  /\ Len(obj.sameAs) = 2
  /\ Len(result[1].issued) > Len(ThingUpdates(obj))

RoleIdentifierGiven ==
  \A p \in Parameters("Role") :
    New("Role", p) = obj =>
      /\ \A i \in IdentifierReads :
           ~result[i].thrown =>
             CASE p.identifier.shape = "object" ->
                    result[i].value = p.identifier.term
               [] p.identifier.shape = "string" ->
                    result[i].value = NamedNode(p.identifier.str)
               [] OTHER ->
                    /\ result[i].value.termType = "NamedNode"
                    /\ \A j \in HashCalls :
                         result[i].value.value =
                           "urn:shaclmate:object:Role:" \o Sha256Hex(result[j].issued)
      /\ \A id \in {Undefined, PString("http://example.com/given"),
                    PTerm(NamedNode("http://example.com/given"))} :
           LET twin == New("Role", [p EXCEPT !.identifier = id])
           IN  /\ id # Undefined =>
                    /\ ~IdentifierThrows(twin)
                    /\ Identifier(twin) = NamedNode("http://example.com/given")
               /\ \A i \in HashCalls :
                    /\ result[i].issued = Hash(twin, NewHasher).updates
                    /\ result[i].thrown = Hash(twin, NewHasher).thrown

\* A Role that was given an identifier and a roleName was hashed and its
\* identifier read.
RoleIdentifierGivenWitness ==
  /\ Len(result) >= 2
  /\ result[1].op = "hash"
  /\ result[2].op = "identifier"
  /\ obj._identifier.just
  /\ obj.roleName.just
  /\ result[2].value = NamedNode("http://example.com/Role/2")
  /\ Len(result[1].issued) = 2

(* ---------------------------------------------------------------------- *)
(* Properties of equals                                                    *)
(* ---------------------------------------------------------------------- *)

\* C3: equality is reflexive. x.equals(x) is Equal for every object x.
EqualsReflexive ==
  (result.op = "equals" /\ other = obj) => result.value.tag = "Right"

\* The order of comparison the claim gives: the Thing fields, then the
\* fields of the class in declaration order.
ClaimedOrder(c) ==
  <<"description", "identifier", "identifiers", "name", "sameAs", "type", "url">>
  \o
  CASE c = "Role" -> <<"endDate", "roleName", "startDate">>
    [] c = "Person" -> <<"birthDate", "familyName", "gender", "givenName",
                         "hasOccupation", "images", "memberOf">>
    [] c = "Organization" ->
         <<"members", "parentOrganizations", "subOrganizations">>
    [] c = "QuantitiveValue" -> <<"value">>
    [] c = "ImageObject" ->
         <<"isBasedOn", "contentUrl", "encodingFormat", "height", "width">>
    [] c \in {"Occupation", "GenderType"} -> <<>>

ArrayFieldNames ==
  {"identifiers", "sameAs", "hasOccupation", "images", "memberOf", "members",
   "parentOrganizations", "subOrganizations", "isBasedOn"}

\* Field f holds different values in l and r: different identifiers,
\* arrays of different length or with a left element that is no right
\* element, or different presence or value of any other field.
Differs(l, r, f) ==
  IF f = "identifier"
  THEN \/ IdentifierThrows(l) # IdentifierThrows(r)
       \/ ~IdentifierThrows(l) /\ ~IdentifierThrows(r)
          /\ Identifier(l) # Identifier(r)
  ELSE IF f \in ArrayFieldNames
  THEN \/ Len(l[f]) # Len(r[f])
       \/ \E i \in DOMAIN l[f] : \A j \in DOMAIN r[f] : l[f][i] # r[f][j]
  ELSE l[f] # r[f]

DifferingFields(l, r) ==
  {i \in DOMAIN ClaimedOrder(l.type) : Differs(l, r, ClaimedOrder(l.type)[i])}

Earliest(S) == CHOOSE i \in S : \A j \in S : i <= j

\* C8: equals short-circuits on the first mismatch. When the two objects
\* differ in several fields, the result is a Left 'Property' descriptor
\* naming the earliest differing field of the order, with the two objects
\* as left and right, and no later field was compared.
EqualsShortCircuits ==
  (result.op = "equals" /\ Cardinality(DifferingFields(obj, other)) >= 2) =>
    LET order == ClaimedOrder(obj.type)
        first == Earliest(DifferingFields(obj, other))
    IN  /\ result.value.tag = "Left"
        /\ result.value.unequal.type = "Property"
        /\ result.value.unequal.propertyName = order[first]
        /\ result.value.unequal.left = obj
        /\ result.value.unequal.right = other
        /\ result.value.trace = SubSeq(order, 1, first)

\* The stored value of the field parameter f sets, as a Maybe for the
\* identifier as well (a Role keeps none when none is given).
FieldOf(o, f) ==
  IF f # "identifier" THEN o[f]
  ELSE IF o.type = "Role" THEN o._identifier ELSE Just(o.identifier)

\* The stored value the claim gives for parameter value v of parameter f.
Normalized(f, v) ==
  CASE v.shape = "undefined" -> IF f \in ArrayParams THEN <<>> ELSE Nothing
    [] v.shape = "maybe" -> v.maybe
    [] v.shape = "array" -> v.arr
    [] v.shape = "string" ->
         Just(IF f \in IriParams \cup {"identifier"} THEN NamedNode(v.str)
              ELSE IF f = "gender" THEN PlainLiteral(v.str)
              ELSE v.str)
    [] v.shape = "object" -> Just(v.term)
    [] v.shape = "date" -> Just(v.date)
    [] v.shape = "number" -> Just(v.num)
    [] v.shape = "instance" -> Just(v.inst)

\* C10: constructor normalization. Each field holds Nothing for an omitted
\* parameter, Just(v) for a raw v, the Maybe given, the named node of a
\* string given for an IRI field, [] for an omitted array; and the object
\* built from raw values equals the one built from the reshaped values.
CtorNormalizes ==
  /\ obj # NotConstructed =>
       \A f \in DOMAIN input.raw :
         /\ FieldOf(obj, f) = Normalized(f, input.raw[f])
         /\ FieldOf(other, f) = Normalized(f, input.reshaped[f])
  /\ result.op = "equals" => result.value.tag = "Right"

(* ---------------------------------------------------------------------- *)
(* Properties of toJson and fromJson                                       *)
(* ---------------------------------------------------------------------- *)

\* C1: for every object x of every concrete class C, x.toJson() returns,
\* C.fromJson of it is a Right, and x.equals of the Right's value is Equal.
JsonRoundTrip ==
  /\ input.class \in Classes => input.json # JThrown
  /\ result.op = "fromJson" => result.value.tag = "Right"
  /\ result.op = "equals" => result.value.tag = "Right"

RdfRoundTrip ==
  /\ input.class = obj.type
  /\ ~input.toRdfIgnoreRdfType
  /\ ~input.ignoreRdfType
  => /\ result.op = "toRdf" => ~result.thrown
     /\ result.op = "fromRdf" => result.value.tag = "Right"
     /\ result.op = "equals" => result.value.tag = "Right"

HasOccupationOrder ==
  /\ result.op = "fromRdf"
  /\ input.class = "Person"
  /\ \/ input.ignoreRdfType
     \/ \E i \in DOMAIN graph :
          graph[i] = Triple(Identifier(obj), RdfType,
                            NamedNode("http://schema.org/Person"))
  => LET found == {i \in DOMAIN graph :
                     /\ graph[i].s = Identifier(obj)
                     /\ graph[i].p = "http://schema.org/hasOccupation"}
         Occ(i) == IF graph[i].o.termType = "NamedNode"
                   THEN FromRdf("Occupation", graph, graph[i].o, TRUE)
                   ELSE LeftError("no named resource")
         Rol(i) == IF graph[i].o.termType = "NamedNode"
                   THEN FromRdf("Role", graph, graph[i].o, TRUE)
                   ELSE LeftError("no named resource")
         Kept(i) == Occ(i).tag = "Right" \/ Rol(i).tag = "Right"
         Decoded(i) == IF Occ(i).tag = "Right" THEN Occ(i).value ELSE Rol(i).value
         kept == {i \in found : Kept(i)}
     IN  /\ result.value.tag = "Right"
         /\ Len(other.hasOccupation) = Cardinality(kept)
         /\ \A i \in kept :
              other.hasOccupation[Cardinality({k \in kept : k <= i})] = Decoded(i)

\* Person.fromRdf of a resource with two values of hasOccupation: the
\* resource a Role wrote, decoded by Occupation.fromRdf, and a value that
\* is no named node, left out.
HasOccupationOrderWitness ==
  /\ result.op = "fromRdf"
  /\ input.class = "Person"
  /\ result.value.tag = "Right"
  /\ Len(other.hasOccupation) = 1
  /\ other.hasOccupation[1].type = "Occupation"
  /\ Identifier(other.hasOccupation[1]) = Identifier(SampleRole)
  /\ \E i \in DOMAIN graph :
       /\ graph[i].s = Identifier(obj)
       /\ graph[i].p = "http://schema.org/hasOccupation"
       /\ graph[i].o.termType # "NamedNode"

\* C12: after x.toRdf returned, the rdf:type triples whose subject is x's
\* identifier are exactly one, with the schema.org class of x's own class as
\* object, when ignoreRdfType was absent or false, and none when it was
\* true: the toRdf of the supertypes adds none, so the resource is not typed
\* with a superclass.
TypeTriple ==
  result.op = "toRdf" /\ ~result.thrown =>
    LET types == {graph[i].o : i \in {k \in DOMAIN graph :
                                        /\ graph[k].s = Identifier(obj)
                                        /\ graph[k].p = RdfType}}
        class == CASE obj.type = "Role" -> "http://schema.org/Role"
                   [] obj.type = "Person" -> "http://schema.org/Person"
                   [] obj.type = "Organization" -> "http://schema.org/Organization"
                   [] obj.type = "Occupation" -> "http://schema.org/Occupation"
                   [] obj.type = "QuantitiveValue" ->
                        "http://schema.org/QuantitativeValue"
                   [] obj.type = "ImageObject" -> "http://schema.org/ImageObject"
                   [] obj.type = "GenderType" -> "http://schema.org/GenderType"
    IN  types = IF input.toRdfIgnoreRdfType THEN {} ELSE {NamedNode(class)}

\* An ImageObject with a height, written with ignoreRdfType = true: the
\* dataset types the QuantitiveValue, which the nested toRdf wrote, and not
\* the image.
TypeTripleWitness ==
  /\ result.op = "toRdf"
  /\ ~result.thrown
  /\ input.toRdfIgnoreRdfType
  /\ obj.type = "ImageObject"
  /\ obj.height.just
  /\ \E i \in DOMAIN graph :
       /\ graph[i].s = Identifier(obj.height.value)
       /\ graph[i].p = RdfType
  /\ \A i \in DOMAIN graph : graph[i].s = Identifier(obj) => graph[i].p # RdfType

(* ---------------------------------------------------------------------- *)
(* Properties of the JSON shape                                            *)
(* ---------------------------------------------------------------------- *)

\* C13: the JSON x.toJson() returns has "@id" equal to x.identifier.value
\* and type equal to the name of x's class; C.fromJson returns Left, and
\* constructs nothing, for JSON whose type is not C's name or whose "@id" is
\* missing or empty; and Person.fromJson decodes each element of
\* hasOccupation as the class its type names, Role or Occupation.
JsonShape ==
  /\ obj.type \in Classes /\ input.class \in Classes /\ input.json # JThrown
     => /\ input.json.t = "object"
        /\ "@id" \in DOMAIN input.json.o
        /\ input.json.o["@id"] = JString(Identifier(obj).value)
        /\ "type" \in DOMAIN input.json.o
        /\ input.json.o["type"] = JString(obj.type)
  /\ /\ result.op = "fromJson"
     /\ \/ input.json.t # "object"
        \/ "type" \notin DOMAIN input.json.o
        \/ input.json.o["type"] # JString(input.class)
        \/ "@id" \notin DOMAIN input.json.o
        \/ input.json.o["@id"] = JString("")
     => /\ result.value.tag = "Left"
        /\ other = NotConstructed
  /\ result.op = "fromJson" /\ input.class = "Person" /\ result.value.tag = "Right"
     => LET items == input.json.o["hasOccupation"].a
        IN  /\ Len(other.hasOccupation) = Len(items)
            /\ \A i \in DOMAIN items :
                 /\ items[i].o["type"].s \in {"Role", "Occupation"}
                 /\ other.hasOccupation[i].type = items[i].o["type"].s

\* A Person with an Occupation and a Role, written by toJson and read by
\* Person.fromJson.
JsonShapeWitness ==
  /\ obj.type = "Person"
  /\ result.op = "fromJson"
  /\ result.value.tag = "Right"
  /\ input.json.o["type"] = JString("Person")
  /\ Len(other.hasOccupation) = 2
  /\ other.hasOccupation[1].type = "Occupation"
  /\ other.hasOccupation[2].type = "Role"

(* ---------------------------------------------------------------------- *)
(* Properties of both directions                                           *)
(* ---------------------------------------------------------------------- *)

\* The fields of an object other than its identifier and type, each with the
\* predicate toRdf writes it under and whether it is an array.
FieldsOf(o) ==
  {ToRdfProperties(o.type)[i] :
     i \in {k \in DOMAIN ToRdfProperties(o.type) :
              ToRdfProperties(o.type)[k].kind # "type"}}

\* Whether a field holds a value: a Maybe that is a Just, a non-empty array.
Present(o, prop) == IF prop.many THEN o[prop.field] # <<>> ELSE o[prop.field].just

\* The objects of the triples of the dataset with subject s and predicate p.
TriplesOf(s, p) == {i \in DOMAIN graph : graph[i].s = s /\ graph[i].p = p}

\* C14: optional and array fields are handled alike in both directions. In
\* the JSON toJson returns, an optional field has its key exactly when it is
\* a Just and an array field has its key with an array of the field's
\* length; in the dataset after toRdf, the resource has triples of a
\* field's predicate exactly when the field is a Just (one triple) or a
\* non-empty array, and of no other predicate but rdf:type. fromJson and
\* fromRdf of the same class read each field from the same key and the same
\* predicate: a missing key or predicate gives Nothing or the empty array,
\* and a field that was written is read back present.
Mirrored ==
  /\ obj.type \in Classes /\ "json" \in DOMAIN input /\ input.class \in Classes
     /\ input.json # JThrown
     => \A prop \in FieldsOf(obj) :
          IF prop.many
          THEN /\ prop.field \in DOMAIN input.json.o
               /\ input.json.o[prop.field].t = "array"
               /\ Len(input.json.o[prop.field].a) = Len(obj[prop.field])
          ELSE prop.field \in DOMAIN input.json.o <=> obj[prop.field].just
  /\ obj.type \in Classes /\ result.op = "fromJson" /\ result.value.tag = "Right"
     => \A prop \in FieldsOf(obj) :
          IF prop.many
          THEN Len(other[prop.field]) = Len(input.json.o[prop.field].a)
          ELSE other[prop.field].just <=> prop.field \in DOMAIN input.json.o
  /\ result.op = "toRdf" /\ ~result.thrown
     => /\ \A prop \in FieldsOf(obj) :
             /\ TriplesOf(Identifier(obj), prop.predicate) # {} <=> Present(obj, prop)
             /\ ~prop.many =>
                  Cardinality(TriplesOf(Identifier(obj), prop.predicate)) <= 1
        /\ \A i \in DOMAIN graph :
             graph[i].s = Identifier(obj) =>
               \/ graph[i].p = RdfType
               \/ \E prop \in FieldsOf(obj) : graph[i].p = prop.predicate
  /\ result.op = "fromRdf" /\ input.class = obj.type /\ result.value.tag = "Right"
     => \A prop \in FieldsOf(obj) :
          /\ TriplesOf(Identifier(obj), prop.predicate) = {} =>
               ~Present(other, prop)
          /\ Present(other, prop) <=> Present(obj, prop)

\* An Organization with members and no name, read back from the dataset it
\* was written to: the key is members, the predicate member.
MirroredWitness ==
  /\ result.op = "fromRdf"
  /\ obj.type = "Organization"
  /\ input.class = "Organization"
  /\ result.value.tag = "Right"
  /\ Len(obj.members) = 2
  /\ Len(other.members) = 2
  /\ ~other.name.just
  /\ other.parentOrganizations = <<>>
  /\ TriplesOf(Identifier(obj), "http://schema.org/member") # {}

(* ---------------------------------------------------------------------- *)
(* Properties of assignment                                                *)
(* ---------------------------------------------------------------------- *)

\* The properties assigned so far, each with the class of its object.
Assigned == {<<result[i].class, result[i].property>> : i \in DOMAIN result}

\* C16 as stated: the properties a caller can assign after construction are
\* two, both of one class.
TwoMutableProperties ==
  /\ Cardinality(Assigned) <= 2
  /\ Cardinality({a[1] : a \in Assigned}) <= 1

\* C16: after construction a step changes a property of an object only if it
\* is one of four, of two classes: Person.memberOf, Organization.members,
\* Organization.parentOrganizations, Organization.subOrganizations. Every
\* other property of every object keeps its value.
MutableProperties ==
  [][LET Four == {<<"Person", "memberOf">>, <<"Organization", "members">>,
                  <<"Organization", "parentOrganizations">>,
                  <<"Organization", "subOrganizations">>}
     IN  /\ DOMAIN obj' = DOMAIN obj
         /\ DOMAIN other' = DOMAIN other
         /\ \A f \in DOMAIN obj : obj'[f] # obj[f] => <<obj.type, f>> \in Four
         /\ \A f \in DOMAIN other : other'[f] # other[f] => <<other.type, f>> \in Four]_vars

\* A Person whose memberOf and an Organization whose members and
\* subOrganizations were assigned: three properties of two classes.
MutablePropertiesWitness ==
  /\ obj.type = "Person"
  /\ other.type = "Organization"
  /\ obj.memberOf # <<>>
  /\ other.members # <<>>
  /\ other.subOrganizations # <<>>
  /\ other.parentOrganizations = <<>>
  /\ Assigned = {<<"Person", "memberOf">>, <<"Organization", "members">>,
                 <<"Organization", "subOrganizations">>}

(* ---------------------------------------------------------------------- *)
(* Properties of the methods together                                      *)
(* ---------------------------------------------------------------------- *)

\* C17: equals, hash, toJson, toString and toRdf leave every field of the
\* receiver and of the argument as it was; the hasher changes only in a
\* call of hash, which leaves the dataset alone, and the dataset changes
\* only in a call of toRdf, which leaves the hasher alone.
Pure ==
  [][/\ obj' = obj
     /\ other' = other
     /\ hasher' # hasher => result'.op = "hash" /\ graph' = graph
     /\ graph' # graph => result'.op = "toRdf" /\ hasher' = hasher
     /\ result'.op \in {"equals", "toString"} => hasher' = hasher /\ graph' = graph
     /\ input' # input => hasher' = hasher /\ graph' = graph /\ result' = result]_vars

\* A Role without an explicit identifier, whose getter synthesizes it at
\* every read, after toRdf, hash and toString.
PureWitness ==
  /\ obj.type = "Role"
  /\ ~obj._identifier.just
  /\ obj.roleName.just
  /\ graph # <<>>
  /\ Len(hasher.updates) = 3
  /\ hasher.updates[1] = "prior"
  /\ result.op = "toString"

(* ---------------------------------------------------------------------- *)
(* Properties of decoding a GenderType                                     *)
(* ---------------------------------------------------------------------- *)

\* GenderType.fromRdf read a resource whose identifier is neither Female
\* nor Male.
FromRdfOfOtherIdentifier ==
  /\ result.op = "fromRdf"
  /\ input.class = "GenderType"
  /\ Identifier(obj).value \notin {"http://schema.org/Female", "http://schema.org/Male"}

\* GenderType.fromJson read an object whose "@id" is a string that is
\* neither Female nor Male.
FromJsonOfOtherIdentifier ==
  /\ result.op = "fromJson"
  /\ input.class = "GenderType"
  /\ input.json.t = "object"
  /\ "@id" \in DOMAIN input.json.o
  /\ input.json.o["@id"].t = "string"
  /\ input.json.o["@id"].s \notin {"http://schema.org/Female", "http://schema.org/Male"}

\* C18 as stated: GenderType.fromRdf of a resource with another identifier
\* returns Left(MistypedValueError) carrying the identifier and the focus
\* resource, GenderType.fromJson of JSON with another "@id" returns the Left
\* of the schema, and neither constructs an object.
GenderTypeMistyped ==
  /\ FromRdfOfOtherIdentifier =>
       /\ result.value.tag = "Left"
       /\ result.value.error.type = "MistypedValueError"
       /\ result.value.error.actualValue = Identifier(obj)
       /\ result.value.error.focusResource = Identifier(obj)
       /\ other = NotConstructed
  /\ FromJsonOfOtherIdentifier =>
       /\ result.value = LeftError("ZodError")
       /\ other = NotConstructed

\* C18: a GenderType is decoded only with identifier Female or Male.
\* GenderType.fromRdf of a resource with another identifier returns a Left
\* and constructs nothing: the Left(ValueError) of the rdf:type check when
\* ignoreRdfType is not set and the dataset does not type the resource as
\* GenderType, and else Left(MistypedValueError) carrying the identifier as
\* actual value and the resource as focus. GenderType.fromJson of JSON
\* with another "@id" returns the Left of the schema and constructs nothing.
GenderTypeIdentifier ==
  /\ FromRdfOfOtherIdentifier =>
       /\ result.value.tag = "Left"
       /\ other = NotConstructed
       /\ result.value.error.focusResource = Identifier(obj)
       /\ IF \/ input.ignoreRdfType
             \/ \E i \in DOMAIN graph :
                  graph[i] = Triple(Identifier(obj), RdfType,
                                    NamedNode("http://schema.org/GenderType"))
          THEN /\ result.value.error.type = "MistypedValueError"
               /\ result.value.error.actualValue = Identifier(obj)
          ELSE /\ result.value.error.type = "ValueError"
               /\ result.value.error.predicate = "http://schema.org/GenderType"
  /\ FromJsonOfOtherIdentifier =>
       /\ result.value = LeftError("ZodError")
       /\ other = NotConstructed
  /\ result.op \in {"fromRdf", "fromJson"} /\ input.class = "GenderType"
     /\ result.value.tag = "Right"
     => Identifier(other).value \in {"http://schema.org/Female", "http://schema.org/Male"}

\* GenderType.fromRdf, without ignoreRdfType, of the resource of an
\* Occupation that another party typed as GenderType.
GenderTypeIdentifierWitness ==
  /\ FromRdfOfOtherIdentifier
  /\ ~input.ignoreRdfType
  /\ obj.type = "Occupation"
  /\ result.value.tag = "Left"
  /\ result.value.error.type = "MistypedValueError"
  /\ result.value.error.actualValue = NamedNode("http://example.com/Occupation/1")

(* ---------------------------------------------------------------------- *)
(* Properties of arrayEquals                                               *)
(* ---------------------------------------------------------------------- *)

\* C19: for arrays of different lengths arrayEquals returns
\* Left{type: 'ArrayLength', left, right} with the two arrays, and calls
\* elementEquals on no pair; two empty arrays are Equal.
ArrayLengthUnequal ==
  result.op = "arrayEquals" =>
    /\ Len(input.leftArray) # Len(input.rightArray) =>
         /\ result.value.tag = "Left"
         /\ result.value.unequal = [left |-> input.leftArray,
                                    right |-> input.rightArray,
                                    type |-> "ArrayLength"]
         /\ result.calls = <<>>
    /\ input.leftArray = <<>> /\ input.rightArray = <<>> =>
         /\ result.value.tag = "Right"
         /\ result.calls = <<>>

\* Two arrays and one: the first elements are equal, and nothing was
\* compared.
ArrayLengthUnequalWitness ==
  /\ result.op = "arrayEquals"
  /\ input.elementEquals = "strictEquals"
  /\ Len(input.leftArray) = 2
  /\ Len(input.rightArray) = 1
  /\ input.leftArray[1] = "a"
  /\ input.leftArray[2] = "a"
  /\ input.rightArray[1] = "a"
  /\ result.value.tag = "Left"

\* Whether elementEquals takes left element i for equal to some right
\* element.
HasEqual(i) ==
  \E j \in DOMAIN input.rightArray :
    ValueEquals(input.elementEquals, input.leftArray[i], input.rightArray[j]).tag
      = "Right"

\* C20: for arrays of equal length arrayEquals returns Equal exactly when
\* every left element is equal, by elementEquals, to at least one right
\* element. Otherwise it returns Left{type: 'ArrayElement'} for the first
\* left element without an equal: left holds the array, the element and its
\* index, and right.unequals holds the mismatch of that element with each
\* right element, one per right element, in the order of the right array.
ArrayElementUnequal ==
  result.op = "arrayEquals" /\ Len(input.leftArray) = Len(input.rightArray) =>
    LET without == {i \in DOMAIN input.leftArray : ~HasEqual(i)}
    IN  IF without = {} THEN result.value.tag = "Right"
        ELSE LET i == CHOOSE k \in without : \A m \in without : k <= m
                 unequal == result.value.unequal
             IN  /\ result.value.tag = "Left"
                 /\ unequal.type = "ArrayElement"
                 /\ unequal.left = [array |-> input.leftArray,
                                    element |-> input.leftArray[i],
                                    elementIndex |-> i - 1]
                 /\ unequal.right.array = input.rightArray
                 /\ Len(unequal.right.unequals) = Len(input.rightArray)
                 /\ \A j \in DOMAIN input.rightArray :
                      unequal.right.unequals[j] =
                        fromBooleanEqualsResult(
                          input.leftArray[i], input.rightArray[j],
                          ValueEquals(input.elementEquals, input.leftArray[i],
                                      input.rightArray[j])).unequal

\* [1, NaN] and [NaN, 1]: the first left element is equal to the second
\* right element, and the second left element, NaN, to none.
ArrayElementUnequalWitness ==
  /\ result.op = "arrayEquals"
  /\ input.elementEquals = "strictEqualsNumber"
  /\ input.leftArray = <<Num(1), NaN>>
  /\ input.rightArray = <<NaN, Num(1)>>
  /\ result.value.tag = "Left"
  /\ result.value.unequal.left.elementIndex = 1
  /\ Len(result.value.unequal.right.unequals) = 2
  /\ result.calls = <<<<0, 0>>, <<0, 1>>, <<1, 0>>, <<1, 1>>>>

(* ---------------------------------------------------------------------- *)
(* Properties of maybeEquals                                               *)
(* ---------------------------------------------------------------------- *)

\* C21: maybeEquals covers the four presence cases. Both Nothing gives
\* Equal; left Just and right Nothing gives Left{type: 'RightNull'} with the
\* left value; left Nothing and right Just gives Left{type: 'LeftNull'} with
\* the right value; both Just gives the result of valueEquals on the two
\* values, a boolean true as Equal, a boolean false as
\* Left{type: 'BooleanEquals'}, and an EqualsResult unchanged.
MaybeEqualsCases ==
  result.op = "maybeEquals" =>
    LET l == input.leftMaybe
        r == input.rightMaybe
    IN  CASE ~l.just /\ ~r.just -> result.value.tag = "Right"
          [] l.just /\ ~r.just ->
               /\ result.value.tag = "Left"
               /\ result.value.unequal = [left |-> l.value, type |-> "RightNull"]
          [] ~l.just /\ r.just ->
               /\ result.value.tag = "Left"
               /\ result.value.unequal = [right |-> r.value, type |-> "LeftNull"]
          [] l.just /\ r.just ->
               LET compared == ValueEquals(input.valueEquals, l.value, r.value)
               IN  IF compared.tag # "boolean" THEN result.value = compared
                   ELSE IF compared.value THEN result.value.tag = "Right"
                   ELSE /\ result.value.tag = "Left"
                        /\ result.value.unequal.type = "BooleanEquals"

\* Just("a") against Nothing, compared by a function that returns a boolean.
MaybeEqualsCasesWitness ==
  /\ result.op = "maybeEquals"
  /\ input.valueEquals = "(left, right) => left === right"
  /\ input.leftMaybe = Just("a")
  /\ input.rightMaybe = Nothing
  /\ result.value.tag = "Left"
  /\ result.value.unequal.type = "RightNull"

(* ---------------------------------------------------------------------- *)
(* Properties of equals as a relation                                      *)
(* ---------------------------------------------------------------------- *)

\* The calls of equals made so far.
EqualsCalls == {i \in DOMAIN result : result[i].op = "equals"}

\* C22: equals is symmetric. For two objects a and b of one class,
\* a.equals(b) is Equal exactly when b.equals(a) is Equal, array fields
\* with repeated elements included.
EqualsSymmetric ==
  \A i \in EqualsCalls : \A j \in EqualsCalls :
    result[j].this = result[i].that /\ result[j].that = result[i].this =>
      (result[i].value.tag = "Right" <=> result[j].value.tag = "Right")

\* C23: equals is transitive. For three objects a, b and c of one class,
\* if a.equals(b) is Equal and b.equals(c) is Equal then a.equals(c) is
\* Equal.
EqualsTransitive ==
  \A i \in EqualsCalls : \A j \in EqualsCalls : \A k \in EqualsCalls :
    /\ result[j].this = result[i].that
    /\ result[k].this = result[i].this
    /\ result[k].that = result[j].that
    /\ result[i].value.tag = "Right"
    /\ result[j].value.tag = "Right"
    => result[k].value.tag = "Right"

\* Three different objects: identifiers [a, a], [a, b] and [b, a], with all
\* three comparisons Equal.
EqualsTransitiveWitness ==
  /\ Len(result) >= 4
  /\ obj.identifiers = <<"a", "a">>
  /\ other.identifiers = <<"a", "b">>
  /\ input.third.identifiers = <<"b", "a">>
  /\ result[1].value.tag = "Right"
  /\ result[3].value.tag = "Right"
  /\ result[4].value.tag = "Right"

\* The calls of hash made so far.
HashedCalls == {i \in DOMAIN result : result[i].op = "hash"}

\* C25: hash is consistent with equals. For two objects a and b of one class
\* with a.equals(b) Equal, a.hash and b.hash feed the hasher the same
\* sequence of update() arguments.
HashConsistent ==
  \A e \in EqualsCalls : \A i \in HashedCalls : \A j \in HashedCalls :
    /\ result[i].this = result[e].this
    /\ result[j].this = result[e].that
    /\ result[e].value.tag = "Right"
    => /\ result[i].issued = result[j].issued
       /\ result[i].thrown = result[j].thrown

(* ---------------------------------------------------------------------- *)
(* Properties of equals on permuted arrays                                 *)
(* ---------------------------------------------------------------------- *)

\* Whether array r holds the elements of array l in some order.
IsPermutation(l, r) ==
  /\ Len(l) = Len(r)
  /\ \E pi \in [DOMAIN l -> DOMAIN l] :
       /\ \A i \in DOMAIN l : \A j \in DOMAIN l : pi[i] = pi[j] => i = j
       /\ \A i \in DOMAIN l : r[i] = l[pi[i]]

\* Whether other is obj with the elements of its array fields permuted:
\* every other field, the explicit identifier included, is identical.
Permuted ==
  /\ obj.type = other.type
  /\ obj.type = "Role" => obj._identifier.just
  /\ \A f \in DOMAIN obj :
       IF f \in ArrayParams THEN IsPermutation(obj[f], other[f])
       ELSE obj[f] = other[f]

\* C24: array fields are compared without regard to order. If b is a with
\* the elements of any array field permuted, all other fields and the
\* explicit identifier identical, then a.equals(b) is Equal.
PermutedEqual ==
  result.op = "equals" /\ Permuted => result.value.tag = "Right"

(* ---------------------------------------------------------------------- *)
(* Properties of identifier synthesis                                      *)
(* ---------------------------------------------------------------------- *)

\* The reads of identifier made so far that returned.
IdentifierCalls ==
  {i \in DOMAIN result : result[i].op = "identifier" /\ ~result[i].thrown}

\* C26: identifier synthesis is injective on field values. Two Roles without
\* explicit identifiers receive the same synthesized identifier only if every
\* field of one has the same presence and the same value as the
\* corresponding field of the other.
SynthesisInjective ==
  \A i \in IdentifierCalls : \A j \in IdentifierCalls :
    /\ obj.type = "Role"
    /\ ~obj._identifier.just
    /\ ~other._identifier.just
    /\ result[i].this = "a"
    /\ result[j].this = "b"
    /\ result[i].value = result[j].value
    => obj = other

(* ---------------------------------------------------------------------- *)
(* Properties of the round trip of nested objects                          *)
(* ---------------------------------------------------------------------- *)

\* C27: the round trip of a Person through RDF preserves the concrete type
\* of every hasOccupation element. Person.fromRdf of what p.toRdf wrote into
\* an empty dataset decodes each element that was a Role in p as a Role with
\* its endDate, roleName and startDate, and each Occupation as an
\* Occupation.
OccupationTypePreserved ==
  /\ result.op = "fromRdf"
  /\ obj.type = "Person"
  /\ input.class = "Person"
  /\ result.value.tag = "Right"
  => \A i \in DOMAIN obj.hasOccupation :
       \E j \in DOMAIN other.hasOccupation :
         /\ other.hasOccupation[j].type = obj.hasOccupation[i].type
         /\ Identifier(other.hasOccupation[j]) = Identifier(obj.hasOccupation[i])
         /\ obj.hasOccupation[i].type = "Role" =>
              /\ other.hasOccupation[j].endDate = obj.hasOccupation[i].endDate
              /\ other.hasOccupation[j].roleName = obj.hasOccupation[i].roleName
              /\ other.hasOccupation[j].startDate = obj.hasOccupation[i].startDate

(* ---------------------------------------------------------------------- *)
(* Properties of values fromRdf cannot convert                             *)
(* ---------------------------------------------------------------------- *)

\* Whether a term converts to the type of a field: a literal to a string, a
\* named node to an IRI or to a nested object, a literal that holds a date
\* to a Date, a numeric literal to a number.
Convertible(kind, term) ==
  CASE kind = "toString" -> term.termType = "Literal"
    [] kind = "toIri" -> term.termType = "NamedNode"
    [] kind = "toTerm" -> TRUE
    [] kind = "toDate" -> term.termType = "Literal" /\ NewDate(term.value).valid
    [] kind = "toNumber" ->
         term.termType = "Literal" /\ term.datatype \in {XsdInteger, XsdDouble}
    [] OTHER -> term.termType = "NamedNode"

\* C28: in fromRdf a property value that cannot be converted to the type of
\* the field never produces a Left. An optional field whose value does not
\* convert is decoded as Nothing, and an array holds only the values that
\* convert; the only Lefts of fromRdf are that of the rdf:type check and that
\* of the identifier of a GenderType.
UnconvertibleNeverLeft ==
  result.op = "fromRdf" =>
    LET resource == Identifier(obj)
        props == FromRdfProperties(input.class)
        mistyped ==
          /\ ~input.ignoreRdfType
          /\ \A i \in DOMAIN graph :
               graph[i] # Triple(resource, RdfType, NamedNode(RdfTypeOf(input.class)))
        misnamed ==
          /\ input.class = "GenderType"
          /\ resource.value \notin {SchemaOrg("Female"), SchemaOrg("Male")}
    IN  IF mistyped \/ misnamed THEN result.value.tag = "Left"
        ELSE /\ result.value.tag = "Right"
             /\ \A i \in DOMAIN props :
                  LET values == Values(graph, resource, props[i].predicate)
                      field == other[props[i].field]
                  IN  IF props[i].many
                      THEN Len(field) =
                             Cardinality({k \in DOMAIN values :
                                            Convertible(props[i].kind, values[k])})
                      ELSE values # <<>> /\ ~Convertible(props[i].kind, values[1])
                             => field = Nothing

\* QuantitiveValue.fromRdf of a resource whose only value of schema:value is
\* a literal that is no number: a Right, and the value is Nothing.
UnconvertibleNeverLeftWitness ==
  /\ result.op = "fromRdf"
  /\ input.class = "QuantitiveValue"
  /\ obj.type = "QuantitiveValue"
  /\ result.value.tag = "Right"
  /\ other.value = Nothing
  /\ \E i \in DOMAIN graph :
       graph[i] = Triple(Identifier(obj), SchemaOrg("value"), PlainLiteral("x"))

(* ---------------------------------------------------------------------- *)
(* Properties of writing twice                                             *)
(* ---------------------------------------------------------------------- *)

====
